---- MODULE Spec2Model ----
(***************************************************************************)
(* Trias: incremental multi-label text classifier (src/src/trias.mjs,      *)
(* first class body, lines 16-770) together with its training function     *)
(* (src/unnamed/part_003) and output shaping (src/src/prediction.mjs).     *)
(*                                                                         *)
(* JavaScript is single threaded: an async method runs without             *)
(* interruption from one await to the next.  Every action below is one     *)
(* such run-to-completion segment of one call; calls interleave only at    *)
(* their awaits.  The continuations that are ready run in any order, which *)
(* includes the order of the microtask queue.                              *)
(***************************************************************************)
EXTENDS Integers, Sequences, FiniteSets, TLC

(***************************************************************************)
(* Options of the instance and bounds of the model                         *)
(***************************************************************************)

\* constructor option n (maximum n-gram length)
n == 3

\* constructor option size (this.maxModelSize), in the byte unit of FileSizes
maxModelSize == 4

\* constructor option excludes
excludes == {"spam"}

\* at most this many examples are ever ingested (caps the counters)
MaxDocs == 3

\* at most this many calls are in flight at once in the concurrent specification
MaxInflight == 2

\* most (example, label) pairs trained in the query specification
MaxQueryDocs == 4

\* the scores, the list lengths and the limits output shaping is applied to
Scores == {60, 79, 90, 100}

MaxResults == 3

MaxLimit == 3

\* sizes a written model file may have, in the unit of maxModelSize
FileSizes == {3, 12}

(***************************************************************************)
(* Generic helpers on maps (JavaScript Map / object as a finite function)  *)
(***************************************************************************)

EmptyMap == [x \in {} |-> 0]

MapGet(m, k, dflt) == IF k \in DOMAIN m THEN m[k] ELSE dflt

MapSet(m, k, v) == [x \in (DOMAIN m) \cup {k} |-> IF x = k THEN v ELSE m[x]]

MapDel(m, ks) == [x \in (DOMAIN m) \ ks |-> m[x]]

Max(a, b) == IF a >= b THEN a ELSE b

Min(a, b) == IF a <= b THEN a ELSE b

RECURSIVE SumSeq(_)
SumSeq(s) == IF s = <<>> THEN 0 ELSE Head(s) + SumSeq(Tail(s))

RECURSIVE SumMap(_)
SumMap(m) ==
  IF DOMAIN m = {} THEN 0
  ELSE LET k == CHOOSE x \in DOMAIN m : TRUE
       IN m[k] + SumMap(MapDel(m, {k}))

\* variant of new Set(s) that keeps every occurrence
Repeated(s) == s

\* the elements of s in order of first occurrence (new Set(s) iteration order)
RECURSIVE Unique(_)
Unique(s) ==
  IF s = <<>> THEN <<>>
  ELSE LET r == Unique(SubSeq(s, 1, Len(s) - 1))
           x == s[Len(s)]
       IN IF \E i \in 1..Len(r) : r[i] = x THEN r ELSE Append(r, x)

(***************************************************************************)
(* Lexical pipeline.  A text is given as the token list tokenizeAndStem    *)
(* returns for it; a term (omen) is the list of tokens joined by ' '.      *)
(***************************************************************************)

\* tokens of length <= 1, which chant drops
ShortTokens == {"a"}

\* stemmer.stem on the category labels of the model
stem(label) ==
  CASE label = "Tech" -> "tech"
    [] label = "tech" -> "tech"
    [] label = "News" -> "new"
    [] label = "Spam" -> "spam"
    [] OTHER -> label

\* output.trim().toLowerCase() on the category labels of the model
lower(label) ==
  CASE label = "Tech" -> "tech"
    [] label = "tech" -> "tech"
    [] label = "News" -> "news"
    [] label = "Spam" -> "spam"
    [] OTHER -> label

RECURSIVE Concat(_)
Concat(ss) == IF ss = <<>> THEN <<>> ELSE Head(ss) \o Concat(Tail(ss))

chant(text) ==
  LET tokens == SelectSeq(text, LAMBDA t : t \notin excludes /\ t \notin ShortTokens)
      grams(i) == [j \in 1..Max(0, Len(tokens) - i + 1) |-> SubSeq(tokens, j, j + i - 1)]
  IN Concat([i \in 1..n |-> grams(i)])

(***************************************************************************)
(* The Index: the model state fields of a Trias instance.  Arrays are      *)
(* sequences (JavaScript index i is position i+1); term and category ids   *)
(* keep their 0-based JavaScript values.                                   *)
(***************************************************************************)

\* the fields reset() assigns
ResetFields ==
  [ categoryStemToId   |-> EmptyMap,
    categoryVariations |-> EmptyMap,
    divinerGroups      |-> <<>>,
    omenMapping        |-> EmptyMap,
    omens              |-> <<>>,
    divinerDocCount    |-> <<>>,
    omenCount          |-> <<>>,
    omenFrequencies    |-> <<>>,
    omenDocFreq        |-> <<>>,
    totalDocuments     |-> 0 ]

\* reset(): categoryRelations and totalTransmissions are not among the fields it clears
reset(ix) ==
  [ResetFields EXCEPT !.totalDocuments = 0] @@
  [ categoryRelations  |-> ix.categoryRelations,
    totalTransmissions |-> ix.totalTransmissions ]

\* the model state the constructor sets up
NewIndex ==
  ResetFields @@
  [ categoryRelations  |-> EmptyMap,
    totalTransmissions |-> "undefined" ]

\* trainText, "Register new omens": ids are handed out in first-occurrence order
RECURSIVE RegisterOmens(_, _)
RegisterOmens(ix, uniq) ==
  IF uniq = <<>> THEN ix
  ELSE LET omen == Head(uniq)
           ix1 == IF omen \in DOMAIN ix.omenMapping THEN ix
                  ELSE [ix EXCEPT !.omenMapping = MapSet(@, omen, Len(ix.omens)),
                                  !.omens = Append(@, omen),
                                  !.omenDocFreq = Append(@, 0)]
       IN RegisterOmens(ix1, Tail(uniq))

\* trainText, "Update global omen frequency": once per distinct omen of the example
RECURSIVE BumpDocFreq(_, _)
BumpDocFreq(ix, uniq) ==
  IF uniq = <<>> THEN ix
  ELSE LET omenId == ix.omenMapping[Head(uniq)]
       IN BumpDocFreq([ix EXCEPT !.omenDocFreq[omenId + 1] = @ + 1], Tail(uniq))

\* trainText, the inner loop over omensList for one category
RECURSIVE CountOmens(_, _, _)
CountOmens(ix, oracleId, omensList) ==
  IF omensList = <<>> THEN ix
  ELSE LET omenId == ix.omenMapping[Head(omensList)]
           current == MapGet(ix.omenFrequencies[oracleId + 1], omenId, 0)
       IN CountOmens([ix EXCEPT !.omenFrequencies[oracleId + 1] = MapSet(@, omenId, current + 1),
                                !.omenCount[oracleId + 1] = @ + 1],
                     oracleId, Tail(omensList))

\* trainText, the loop over the categories of one example
RECURSIVE TrainCategories(_, _, _)
TrainCategories(ix, categories, omensList) ==
  IF categories = <<>> THEN ix
  ELSE LET category == Head(categories)
           categoryStem == stem(category)
           ix1 == IF categoryStem \notin DOMAIN ix.categoryStemToId
                  THEN [ix EXCEPT !.categoryStemToId = MapSet(@, categoryStem, Len(ix.divinerGroups)),
                                  !.divinerGroups = Append(@, categoryStem),
                                  !.categoryVariations = MapSet(@, categoryStem, MapSet(EmptyMap, category, 1)),
                                  !.divinerDocCount = Append(@, 0),
                                  !.omenCount = Append(@, 0),
                                  !.omenFrequencies = Append(@, EmptyMap)]
                  ELSE [ix EXCEPT !.categoryVariations[categoryStem] =
                                     MapSet(@, category, MapGet(@, category, 0) + 1)]
           oracleId == ix1.categoryStemToId[categoryStem]
           ix2 == [ix1 EXCEPT !.divinerDocCount[oracleId + 1] = @ + 1]
           ix3 == CountOmens(ix2, oracleId, omensList)
           \* context.totalTransmissions++ on a field the constructor never sets
           ix4 == [ix3 EXCEPT !.totalTransmissions = "NaN"]
       IN TrainCategories(ix4, Tail(categories), omensList)

\* Training.trainText(data, context): a return inside the loop ends the whole batch
RECURSIVE trainText(_, _)
trainText(ix, data) ==
  IF data = <<>> THEN ix
  ELSE LET item == Head(data)
           categories == SelectSeq(item.output, LAMBDA c : stem(c) \notin excludes)
           omensList == chant(item.input)
           uniqueOmens == Unique(omensList)
       IN IF categories = <<>> THEN ix
          ELSE IF omensList = <<>> THEN ix
          ELSE trainText(TrainCategories(BumpDocFreq(RegisterOmens(ix, uniqueOmens), uniqueOmens),
                                         categories, omensList),
                         Tail(data))

\* train(), the filter of the batch against this.excludes.
\* An example is [input, output, isArray]: output is the list of labels, isArray
\* tells a label list from a single string label.
FilterItem(item) ==
  IF item.isArray
  THEN [item EXCEPT !.output = SelectSeq(@, LAMBDA o : lower(o) \notin excludes)]
  ELSE item

FilterBatch(text) ==
  SelectSeq([i \in 1..Len(text) |-> FilterItem(text[i])],
            LAMBDA item : IF item.isArray THEN item.output # <<>>
                          ELSE lower(item.output[1]) \notin excludes)

\* train(), co-occurrence update of one ordered pair
AddRelation(rel, catA, catB) ==
  LET relMap == MapGet(rel, catA, EmptyMap)
  IN MapSet(rel, catA, MapSet(relMap, catB, MapGet(relMap, catB, 0) + 1))

RECURSIVE RelatePairs(_, _, _)
RelatePairs(rel, output, pairs) ==
  IF pairs = <<>> THEN rel
  ELSE LET p == Head(pairs)
       IN RelatePairs(AddRelation(rel, stem(output[p[1]]), stem(output[p[2]])), output, Tail(pairs))

\* the (i, j) pairs with i # j in the order of the two nested loops
OrderedPairs(k) ==
  SelectSeq([q \in 1..(k * k) |-> <<((q - 1) \div k) + 1, ((q - 1) % k) + 1>>],
            LAMBDA p : p[1] # p[2])

\* train(), the loop that updates categoryRelations for the filtered batch
RECURSIVE UpdateRelations(_, _)
UpdateRelations(rel, text) ==
  IF text = <<>> THEN rel
  ELSE LET item == Head(text)
       IN IF ~item.isArray \/ Len(item.output) < 2
          THEN UpdateRelations(rel, Tail(text))
          ELSE UpdateRelations(RelatePairs(rel, item.output, OrderedPairs(Len(item.output))),
                               Tail(text))

\* train(), from the filter to the end of the relation loop, on a non-empty filtered batch
Ingest(ix, text) ==
  LET ix1 == trainText(ix, text)
  IN [ix1 EXCEPT !.categoryRelations = UpdateRelations(@, text)]

(***************************************************************************)
(* The bytes-per-term estimate.  this.avgOmenSize is null or the quotient  *)
(* size / omens.length of two integers; it is kept as that quotient:       *)
(*   num > 0, den > 0   a positive finite number                           *)
(*   num > 0, den = 0   Infinity        num = 0, den = 0   NaN             *)
(*   num = 0, den > 0   0                                                  *)
(***************************************************************************)

NullAvg == [k |-> "null", num |-> 0, den |-> 1]

Quotient(size, len) == [k |-> "num", num |-> size, den |-> len]

\* !this.avgOmenSize || isNaN(this.avgOmenSize): null, 0 and NaN
AvgMissing(avg) == avg.k = "null" \/ avg.num = 0

\* this.avgOmenSize > 0 and finite
AvgPositive(avg) == avg.k = "num" /\ avg.num > 0 /\ avg.den > 0

\* Math.floor(this.maxModelSize / this.avgOmenSize) when it is a finite number
\* (for Infinity the quotient is 0; for null and 0 it is Infinity, for NaN NaN)
allowedOmens(avg) ==
  IF avg.k = "num" /\ avg.num > 0 THEN (maxModelSize * avg.den) \div avg.num ELSE 0

\* whether allowedOmens is a finite number greater than 0
AllowedUsable(avg) == avg.k = "num" /\ avg.num > 0 /\ allowedOmens(avg) > 0

\* variant of overloaded() that never reports an overload
overloadedNever(ix, avg) == FALSE

\* overloaded(), the part after the estimate is known:
\* !isNaN(allowedOmens) && allowedOmens > 0 && this.omens.length > allowedOmens
overloadedNow(ix, avg) == AllowedUsable(avg) /\ Len(ix.omens) > allowedOmens(avg)

\* variant of the early return without the test of this.omens.length
PurgeReturnsEarlyUnusable(ix, avg) == ~AllowedUsable(avg)

\* purge(), the early return before the try block
PurgeReturnsEarly(ix, avg) == ~AllowedUsable(avg) \/ Len(ix.omens) <= allowedOmens(avg)

(***************************************************************************)
(* purge(): the body of the try block                                      *)
(***************************************************************************)

\* targetCount of categoryStats
targetCount(ix, allowed) == allowed \div Len(ix.divinerGroups)

\* the categories whose frequency map has the omen
CategoriesWith(ix, idx) ==
  {c \in 1..Len(ix.omenFrequencies) : idx \in DOMAIN ix.omenFrequencies[c]}

\* score = docFreq / (1 + categoryPenalty) as a fraction <<numerator, denominator>>;
\* categoryPenalty is the sum of max(0, (currentCount - targetCount) / targetCount).
\* With targetCount = 0 a category with documents adds Infinity and the score is 0.
Score(ix, allowed, idx) ==
  LET target == targetCount(ix, allowed)
      cats == CategoriesWith(ix, idx)
      over == [c \in cats |-> Max(0, ix.divinerDocCount[c] - target)]
      docFreq == ix.omenDocFreq[idx + 1]
  IN IF target = 0
     THEN IF \E c \in cats : ix.divinerDocCount[c] > 0 THEN <<0, 1>> ELSE <<docFreq, 1>>
     ELSE <<docFreq * target, target + SumMap(over)>>

\* variant of the sort that ignores the score and leaves the index order
IndexBefore(ix, allowed, a, b) == a < b

\* scoredOmens.sort((a, b) => b.score - a.score), a stable sort: equal scores keep index order
ScoreBefore(ix, allowed, a, b) ==
  LET sa == Score(ix, allowed, a)
      sb == Score(ix, allowed, b)
  IN \/ sa[1] * sb[2] > sb[1] * sa[2]
     \/ sa[1] * sb[2] = sb[1] * sa[2] /\ a < b

\* keptIndices in iteration order: the first allowedOmens indices of the sorted list
keptIndices(ix, allowed) ==
  LET sorted == SortSeq([i \in 1..Len(ix.omens) |-> i - 1],
                        LAMBDA a, b : ScoreBefore(ix, allowed, a, b))
  IN SubSeq(sorted, 1, Min(allowed, Len(sorted)))

\* variant of Step 4 that carries the old table over, discarded omens included
RebuiltFrequenciesAll(ix, kept, c) == ix.omenFrequencies[c]

\* Step 4, one category: the frequencies of the kept omens under their new ids
RebuiltFrequencies(ix, kept, c) ==
  LET has == {k \in 1..Len(kept) : MapGet(ix.omenFrequencies[c], kept[k], 0) # 0}
  IN [newIdx \in {k - 1 : k \in has} |-> ix.omenFrequencies[c][kept[newIdx + 1]]]

\* Step 5, one category: sorted ascending by frequency (stable, so by id among equals),
\* then toRemove entries taken by sorted.pop(), that is from the high end
TrimRemoved(freqMap, currentCount, target) ==
  LET toRemove == currentCount - target
      FreqBefore(a, b) == freqMap[a] < freqMap[b] \/ (freqMap[a] = freqMap[b] /\ a < b)
      ids == DOMAIN freqMap
      sorted == [i \in 1..Cardinality(ids) |->
                   CHOOSE x \in ids : Cardinality({y \in ids : FreqBefore(y, x)}) = i - 1]
      cnt == Min(toRemove, Len(sorted))
  IN {sorted[i] : i \in (Len(sorted) - cnt + 1)..Len(sorted)}

\* variant of Step 5 that never trims
NeedsTrimNever(currentCount, target) == FALSE

\* Step 5, one category: currentCount > targetCount * 1.2 (20% tolerance)
NeedsTrim(currentCount, target) == 10 * currentCount > 12 * target

TrimCategory(freqMap, currentCount, target) ==
  IF NeedsTrim(currentCount, target)
  THEN MapDel(freqMap, TrimRemoved(freqMap, currentCount, target))
  ELSE freqMap

\* Steps 1 to 5 and "Update final state".  newOmenCount keeps its Step 4 value:
\* Step 5 subtracts freqMap.get(omenIdx) after freqMap.delete(omenIdx), which is 0.
purgeBody(ix, allowed) ==
  LET kept == keptIndices(ix, allowed)
      target == targetCount(ix, allowed)
      nCat == Len(ix.omenFrequencies)
      step4 == [c \in 1..nCat |-> RebuiltFrequencies(ix, kept, c)]
      newOmenCount == [c \in 1..nCat |-> SumMap(step4[c])]
      newOmenFrequencies ==
        [c \in 1..nCat |->
           IF c <= Len(ix.divinerGroups)
           THEN TrimCategory(step4[c], newOmenCount[c], target)
           ELSE step4[c]]
  IN [ix EXCEPT !.omens = [k \in 1..Len(kept) |-> ix.omens[kept[k] + 1]],
                !.omenMapping = [o \in {ix.omens[kept[k] + 1] : k \in 1..Len(kept)} |->
                                   (CHOOSE k \in 1..Len(kept) : ix.omens[kept[k] + 1] = o) - 1],
                !.omenDocFreq = [k \in 1..Len(kept) |-> ix.omenDocFreq[kept[k] + 1]],
                !.omenFrequencies = newOmenFrequencies,
                !.omenCount = newOmenCount]

\* purge() as a function of the Index: the early return, or the rebuilt state
purged(ix, avg) ==
  IF PurgeReturnsEarly(ix, avg) THEN ix ELSE purgeBody(ix, allowedOmens(avg))

(***************************************************************************)
(* Persistence: toJSON / fromJSON / load.  A JSON document is a record of  *)
(* the serialized properties.  A Map with string keys becomes an object    *)
(* with the same keys, a Map written through Array.from(entries()) a list  *)
(* of pairs, and the integer keys of a frequency Map become strings.       *)
(***************************************************************************)

\* variant of the property list without the relation graph
contextPropertiesNoRelations ==
  { "categoryStemToId", "categoryVariations", "divinerGroups",
    "divinerDocCount", "omenCount", "omenFrequencies", "omenMapping", "omens",
    "omenDocFreq", "totalDocuments" }

\* the model-state members of this.contextProperties (the options among them are constants here)
contextProperties ==
  { "categoryStemToId", "categoryVariations", "categoryRelations", "divinerGroups",
    "divinerDocCount", "omenCount", "omenFrequencies", "omenMapping", "omens",
    "omenDocFreq", "totalDocuments" }

\* Array.from(map.entries()) of a Map whose values are the ids 0..size-1 in insertion order
EntriesById(m) ==
  [i \in 1..Cardinality(DOMAIN m) |->
     LET key == CHOOSE x \in DOMAIN m : m[x] = i - 1 IN <<key, m[key]>>]

\* Object.fromEntries(map) of a Map with integer keys: property names are strings
ObjectOfIds(m) ==
  [key \in {ToString(id) : id \in DOMAIN m} |->
     m[CHOOSE id \in DOMAIN m : ToString(id) = key]]

\* Number(k) of a property name written by ObjectOfIds
NumberOf(key) == CHOOSE id \in 0..(MaxDocs * 8) : ToString(id) = key

toJSONProperty(ix, p) ==
  CASE p \in {"categoryStemToId", "omenMapping"} -> EntriesById(ix[p])
    [] p = "omenFrequencies" -> [c \in 1..Len(ix.omenFrequencies) |-> ObjectOfIds(ix.omenFrequencies[c])]
    [] OTHER -> ix[p]

\* toJSON() followed by JSON.parse: the document that reaches fromJSON
toJSON(ix) == [p \in contextProperties |-> toJSONProperty(ix, p)]

\* new Map(pairs)
MapOfEntries(pairs) ==
  [key \in {pairs[i][1] : i \in 1..Len(pairs)} |->
     pairs[CHOOSE i \in 1..Len(pairs) : pairs[i][1] = key /\ \A j \in (i + 1)..Len(pairs) : pairs[j][1] # key][2]]

\* fromJSON(data) followed by the assignments of load(): each field with its default
loadFields(doc, ix) ==
  LET has(p) == p \in DOMAIN doc
  IN [ divinerGroups      |-> IF has("divinerGroups") THEN doc.divinerGroups ELSE <<>>,
       categoryStemToId   |-> IF has("categoryStemToId") THEN MapOfEntries(doc.categoryStemToId) ELSE EmptyMap,
       categoryVariations |-> IF has("categoryVariations") THEN doc.categoryVariations ELSE EmptyMap,
       categoryRelations  |-> IF has("categoryRelations") THEN doc.categoryRelations ELSE EmptyMap,
       omens              |-> IF has("omens") THEN doc.omens ELSE <<>>,
       omenMapping        |-> IF has("omenMapping") THEN MapOfEntries(doc.omenMapping) ELSE EmptyMap,
       omenFrequencies    |-> IF has("omenFrequencies")
                              THEN [c \in 1..Len(doc.omenFrequencies) |->
                                      [id \in {NumberOf(key) : key \in DOMAIN doc.omenFrequencies[c]} |->
                                         doc.omenFrequencies[c][ToString(id)]]]
                              ELSE <<>>,
       divinerDocCount    |-> IF has("divinerDocCount") THEN doc.divinerDocCount ELSE <<>>,
       omenCount          |-> IF has("omenCount") THEN doc.omenCount ELSE <<>>,
       omenDocFreq        |-> IF has("omenDocFreq") THEN doc.omenDocFreq ELSE <<>>,
       totalDocuments     |-> IF has("totalDocuments") THEN doc.totalDocuments ELSE 0,
       totalTransmissions |-> ix.totalTransmissions ]

\* the model file: absent, a gzip of a document, or bytes that do not decompress;
\* src is the Index the document was serialized from
NoFile == [state |-> "none", doc |-> EmptyMap, size |-> 0, src |-> NewIndex]

WrittenFile(ix, size) == [state |-> "ok", doc |-> toJSON(ix), size |-> size, src |-> ix]

\* a written file of which only the size is followed: nothing reads it back
SizedFile(size) == [state |-> "written", doc |-> EmptyMap, size |-> size, src |-> NewIndex]

\* fs.promises.stat(this.file).catch(() => ({size: 0})).size
statSize(f) == IF f.state = "none" THEN 0 ELSE f.size

(***************************************************************************)
(* State                                                                   *)
(***************************************************************************)

VARIABLES
  index,         \* the model state fields of the instance
  avgOmenSize,   \* this.avgOmenSize
  isPurging,     \* this.isPurging
  isSaving,      \* this.isSaving
  preprocessed,  \* this.preprocessed: false, or the preprocessing cache
  create,        \* constructor option create
  initialized,   \* state of the promise this.initialized
  initPc,        \* position of the init() call the constructor started
  trained,       \* the promise this.trained refers to
  pending,       \* the promises created by train() that are not resolved
  file,          \* the model file on disk
  inflight,      \* the calls that have started and not finished, by slot
  last,          \* the call that finished most recently, with what it observed
  lastPurge,     \* the most recent purge() that returned, until the Index changes
  destroyed,     \* destroy() has been called
  reloaded       \* a second instance constructed on the model file

vars == << index, avgOmenSize, isPurging, isSaving, preprocessed, create, initialized,
           initPc, trained, pending, file, inflight, last, lastPurge, destroyed, reloaded >>

instanceVars == << index, avgOmenSize, isPurging, isSaving, preprocessed, file, lastPurge >>

(***************************************************************************)
(* Inputs of the calls                                                     *)
(***************************************************************************)

Example(input, output, isArray) == [input |-> input, output |-> output, isArray |-> isArray]

\* the batches train() is called with
Batches ==
  { << Example(<<"sun", "sky">>, <<"Tech">>, FALSE) >>,
    << Example(<<"sun", "sky", "sun">>, <<"News">>, FALSE) >>,
    << Example(<<"sky", "sun">>, <<"tech", "News">>, TRUE) >>,
    << Example(<<"sun">>, <<"Spam">>, FALSE) >>,
    << Example(<<"a">>, <<"News">>, FALSE), Example(<<"sky">>, <<"Tech", "Spam">>, TRUE) >> }

\* the batches of the persistence specification
FileBatches ==
  { << Example(<<"sun", "sky">>, <<"Tech">>, FALSE) >>,
    << Example(<<"sky", "sun">>, <<"tech", "News">>, TRUE) >> }

\* the batches of the lifecycle and the concurrent specifications
ConcBatches ==
  { << Example(<<"sun", "sky">>, <<"Tech">>, FALSE) >>,
    << Example(<<"sun">>, <<"Spam">>, FALSE) >> }

\* the batches of the query specification: "sun" is a term of two categories
\* and a label that is also a term; one text repeats a term
QueryBatches ==
  { << Example(<<"sun">>, <<"Tech", "News">>, TRUE) >>,
    << Example(<<"sun", "sky">>, <<"Tech", "sun">>, TRUE) >>,
    << Example(<<"sky", "sky">>, <<"News", "sun">>, TRUE) >> }

\* number of (example, label) pairs a batch can add to the document counts
BatchLoad(text) == SumSeq([i \in 1..Len(text) |-> Len(text[i].output)])

DocLoad(ix) == SumSeq(ix.divinerDocCount)

RelLoad(ix) == SumMap([a \in DOMAIN ix.categoryRelations |-> SumMap(ix.categoryRelations[a])])

(***************************************************************************)
(* The preprocessing cache of single-text prediction                       *)
(***************************************************************************)

\* the fields of the Index preprocess() computes the cache from
CacheFields ==
  { "categoryStemToId", "divinerDocCount", "divinerGroups", "totalDocuments",
    "omenFrequencies", "omenCount", "omens", "omenDocFreq" }

\* the contents of a cache built from an Index (prior, pOmen, idf and
\* categoryTFIDF are functions of these fields)
CacheOf(ix) == [f \in CacheFields |-> ix[f]]

\* this.preprocessed = false
NoCache == [built |-> FALSE, of |-> CacheOf(NewIndex)]

\* preprocess(context): "if (context.preprocessed) return", else the cache is built
preprocess(ix, cache) == IF cache.built THEN cache ELSE [built |-> TRUE, of |-> CacheOf(ix)]

(***************************************************************************)
(* reduce(categories, {amount}).  The argument is a list of category       *)
(* names, a map given as its entries <<name, weight>> in key order, or a   *)
(* value that is neither (null, a string, a number).                       *)
(***************************************************************************)

ListArg(items, amount) == [kind |-> "list", items |-> items, amount |-> amount]

MapArg(items, amount) == [kind |-> "map", items |-> items, amount |-> amount]

OtherArg(kind, amount) == [kind |-> kind, items |-> <<>>, amount |-> amount]

\* variant of Step 1 that takes any value for a category set
ValidCategoriesAny(arg) == TRUE

\* reduce, Step 1: Array.isArray(categories), or typeof categories === 'object' && not null
ValidCategories(arg) == arg.kind \in {"list", "map"}

\* Object.keys(inputScores): the distinct names, in the order the keys were created
allCategories(arg) ==
  IF arg.kind = "list" THEN Unique(arg.items)
  ELSE [i \in 1..Len(arg.items) |-> arg.items[i][1]]

\* inputScores[category]
inputScore(arg, category) ==
  IF arg.kind = "list" THEN 1
  ELSE LET i == CHOOSE j \in 1..Len(arg.items) : arg.items[j][1] = category
       IN arg.items[i][2]

\* stemmer.tokenizeAndStem(category) on the names of the model
tokenizeAndStem(category) ==
  IF category = "Tech, News" THEN << "tech", "new" >> ELSE << stem(category) >>

\* reduce, Step 2: stems[category] without the undefined entries
stemOmens(ix, category) ==
  LET toks == tokenizeAndStem(category)
  IN { ix.omenMapping[<< toks[i] >>] :
         i \in { j \in 1..Len(toks) : << toks[j] >> \in DOMAIN ix.omenMapping } }

\* reduce, Steps 3 and 4: allOracleIds, the categories of the Index that have
\* one of the omens the input names stand for
allOracleIds(ix, arg) ==
  LET keys == allCategories(arg)
      interests == UNION { stemOmens(ix, keys[i]) : i \in 1..Len(keys) }
  IN { oracleId \in { ix.categoryStemToId[st] : st \in DOMAIN ix.categoryStemToId } :
         interests \cap DOMAIN ix.omenFrequencies[oracleId + 1] # {} }

\* Math.min(amount || 3, categoryKeys.length)
numClusters(arg) == Min(IF arg.amount = 0 THEN 3 ELSE arg.amount, Len(allCategories(arg)))

\* reduce, Step 4: hasData, the name has a candidate (weights are positive)
hasData(ix, category) ==
  \E oracleId \in allOracleIds(ix, ListArg(<< category >>, 0)) : TRUE

\* reduce, Steps 4 to 7: the cluster each input name ends in, clusters[c] being
\* the names assigned c.  Every feature vector has one component per member of
\* allOracleIds, and names with equal vectors are never separated (kmeans
\* assigns by distance only).  With no component every vector is {}.  With
\* one component the normalised vector of a name with data is [1] and that of
\* a name without data is [1], or [0] when Math.random() returned 0.  With
\* more components the names without data get Math.random() directions and
\* the centroids are drawn with Math.random(): any assignment into at most
\* numClusters clusters is allowed for.
clusterAssignments(ix, arg) ==
  LET keys == allCategories(arg)
      count == Len(keys)
      width == Cardinality(allOracleIds(ix, arg))
  IN IF width = 0 THEN { [i \in 1..count |-> 1] }
     ELSE IF width = 1
     THEN { a \in [1..count -> 1..Min(2, numClusters(arg))] :
              \A i, j \in 1..count :
                 hasData(ix, keys[i]) /\ hasData(ix, keys[j]) => a[i] = a[j] }
     ELSE [1..count -> 1..numClusters(arg)]

\* clusterCategories.sort((a, b) => (categoryScores[b] || 0) - (categoryScores[a] || 0)),
\* a stable sort of the positions of one cluster
sortedCategories(arg, members) ==
  LET keys == allCategories(arg)
      Before(a, b) == \/ inputScore(arg, keys[a]) > inputScore(arg, keys[b])
                      \/ inputScore(arg, keys[a]) = inputScore(arg, keys[b]) /\ a < b
      ranked == [r \in 1..Cardinality(members) |->
                   CHOOSE x \in members : Cardinality({y \in members : Before(y, x)}) = r - 1]
  IN [r \in 1..Len(ranked) |-> keys[ranked[r]]]

\* topCategories.join(', ')
RECURSIVE joinNames(_)
joinNames(names) ==
  IF names = <<>> THEN ""
  ELSE IF Len(names) = 1 THEN names[1]
  ELSE names[1] \o ", " \o joinNames(Tail(names))

clusterName(sorted) == joinNames(SubSeq(sorted, 1, Min(3, Len(sorted))))

\* reduce, Step 9: result[clusterName] = clusterCategories for the non-empty
\* clusters in order; a later cluster with the same name replaces an earlier one
reduceResult(arg, assignment) ==
  LET count == Len(allCategories(arg))
      members(c) == { i \in 1..count : assignment[i] = c }
      used == { c \in 1..numClusters(arg) : members(c) # {} }
      named(c) == clusterName(sortedCategories(arg, members(c)))
  IN [ nm \in { named(c) : c \in used } |->
         LET c == CHOOSE d \in used : named(d) = nm /\ \A e \in used : named(e) = nm => e <= d
         IN sortedCategories(arg, members(c)) ]

\* the arguments reduce() is called with
ReduceArgs ==
  { ListArg(<<>>, 3),
    ListArg(<< "Tech" >>, 3),
    ListArg(<< "Tech", "News" >>, 3),
    ListArg(<< "Tech", "News", "Tech" >>, 2),
    ListArg(<< "Tech, News", "Tech", "News", "sun" >>, 3),
    MapArg(<< <<"sun", 1>>, <<"Tech", 2>>, <<"News", 3>> >>, 0),
    OtherArg("null", 3), OtherArg("string", 3), OtherArg("number", 3) }

\* the values reduce can return on a valid argument
reduceResults(ix, arg) == { reduceResult(arg, a) : a \in clusterAssignments(ix, arg) }

(***************************************************************************)
(* Output shaping: Prediction.norm(results, options, bestVariantFn,        *)
(* capitalize).  A result is [category, score]; scores are whole numbers,  *)
(* and the two thresholds are compared in hundredths.                      *)
(***************************************************************************)

Result(category, score) == [category |-> category, score |-> score]

\* the options of predict() and related(): amount and limit are 0 when not given
Options(as, amount, limit) == [as |-> as, amount |-> amount, limit |-> limit]

\* the capitalize option of the constructor, at its default
capitalize == FALSE

\* charAt(0).toUpperCase() + slice(1) on the labels of the model
upperFirst(label) ==
  CASE label = "tech" -> "Tech"
    [] label = "new" -> "New"
    [] label = "sun" -> "Sun"
    [] OTHER -> label

\* bestVariant(categoryStem): the most counted surface form, the stem itself
\* when the stem has none (of equally counted forms the code takes the one
\* trained first, the model one of them)
bestVariant(ix, categoryStem) ==
  IF categoryStem \notin DOMAIN ix.categoryVariations THEN categoryStem
  ELSE LET variationCounts == ix.categoryVariations[categoryStem]
       IN CHOOSE best \in DOMAIN variationCounts :
            \A v \in DOMAIN variationCounts : variationCounts[v] <= variationCounts[best]

\* results.sort((a, b) => b.score - a.score): stable, by score descending
sortByScore(results) ==
  LET Before(a, b) == \/ results[a].score > results[b].score
                      \/ results[a].score = results[b].score /\ a < b
      at(r) == CHOOSE x \in 1..Len(results) :
                 Cardinality({y \in 1..Len(results) : Before(y, x)}) = r - 1
  IN [r \in 1..Len(results) |-> results[at(r)]]

\* variant of the cutoff test that only looks at the gap to the next item
cutsAfterGapOnly(results, i) ==
  100 * (results[i].score - results[i + 1].score) > 15 * results[i].score

\* norm, the test of the adaptive cutoff at results[i] (i counted from 1):
\* diff > results[i].score * 0.15 || results[i + 1].score < results[0].score * 0.8
cutsAfter(results, i) ==
  \/ 100 * (results[i].score - results[i + 1].score) > 15 * results[i].score
  \/ 10 * results[i + 1].score < 8 * results[1].score

\* norm, cutoffIndex for options.limit
cutoffIndex(results, limit) ==
  LET stops == { i \in 1..Min(Len(results) - 1, limit - 1) : cutsAfter(results, i) }
  IN Max(1, IF stops = {} THEN limit
            ELSE CHOOSE i \in stops : \A j \in stops : i <= j)

\* results.slice(0, count)
slice(results, count) == SubSeq(results, 1, Min(count, Len(results)))

\* norm, the switch on options.as
shaped(results, as) ==
  IF as = "objects" THEN results
  ELSE LET names == [i \in 1..Len(results) |-> results[i].category]
       IN IF as = "array" THEN names ELSE joinNames(names)

norm(results, options, ix) ==
  IF results = <<>> THEN shaped(results, options.as)
  ELSE LET variants == [i \in 1..Len(results) |->
                          Result(bestVariant(ix, results[i].category), results[i].score)]
           cased == [i \in 1..Len(results) |->
                       Result(IF capitalize THEN upperFirst(variants[i].category)
                              ELSE variants[i].category, variants[i].score)]
           sorted == sortByScore(cased)
           cut == IF options.limit # 0 THEN slice(sorted, cutoffIndex(sorted, options.limit))
                  ELSE IF options.amount # 0 THEN slice(sorted, options.amount)
                  ELSE sorted
       IN shaped(cut, options.as)

\* the candidate lists norm is applied to: the categories in a fixed order,
\* any scores
NormResults ==
  LET stems == << "tech", "new", "sun", "sky" >>
  IN UNION { { [i \in 1..len |-> Result(stems[i], sc[i])] : sc \in [1..len -> Scores] } :
             len \in 1..Min(MaxResults, Len(stems)) }

(***************************************************************************)
(* related(inputScores, options).  The argument is a map given as its      *)
(* entries <<name, score>> in key order, or one name as a string.          *)
(***************************************************************************)

RelatedArg(items, options) == [kind |-> "map", items |-> items, options |-> options]

RelatedName(name, options) == [kind |-> "string", items |-> << <<name, 1>> >>, options |-> options]

\* the orders a finite set can be listed in
RECURSIVE Orderings(_)
Orderings(S) ==
  IF S = {} THEN { <<>> }
  ELSE UNION { { << x >> \o rest : rest \in Orderings(S \ {x}) } : x \in S }

\* this.categoryRelations.get(categoryStem), empty when there is none
relationsOf(ix, cat) == MapGet(ix.categoryRelations, stem(cat), EmptyMap)

\* inputScores.hasOwnProperty(relatedCat): relatedCat is a key of categoryRelations, a stem
inInput(arg, relatedCat) == \E i \in 1..Len(arg.items) : arg.items[i][1] = relatedCat

\* relatedScores[relatedCat]: count * score summed over the input entries
relatedScore(ix, arg, relatedCat) ==
  SumSeq([i \in 1..Len(arg.items) |->
            MapGet(relationsOf(ix, arg.items[i][1]), relatedCat, 0) * arg.items[i][2]])

\* the keys of relatedScores
relatedCats(ix, arg) ==
  { relatedCat \in UNION { DOMAIN relationsOf(ix, arg.items[i][1]) : i \in 1..Len(arg.items) } :
      ~inInput(arg, relatedCat) }

\* the text scores of the prediction engine are not modelled: any list of
\* categories of the Index, with any scores
textScored(ix) ==
  UNION { { [i \in 1..Len(order) |-> Result(order[i], sc[i])] : sc \in [1..Len(order) -> 1..2] } :
          order \in UNION { Orderings(S) : S \in SUBSET DOMAIN ix.categoryStemToId } }

\* Prediction.predictWeightedText(inputScores, context), the fallback: nothing
\* from a model without documents or categories
predictWeightedText(ix) ==
  IF ix.totalDocuments = 0 \/ ix.divinerGroups = <<>> THEN { <<>> } ELSE textScored(ix)

\* Prediction.predictText(text, context) for a text: nothing from a model
\* without documents
predictText(ix) == IF ix.totalDocuments = 0 THEN { <<>> } ELSE textScored(ix)

\* the default options of predict()
PredictOptions == Options("string", 1, 0)

\* candidates.concat(fallbackResults.filter(...)): without the categories already there
withFallback(candidates, fallbackResults) ==
  candidates \o SelectSeq(fallbackResults,
                          LAMBDA f : \A i \in 1..Len(candidates) : candidates[i].category # f.category)

\* the values related can return: relatedScores lists its keys in the order they
\* were first met, which follows the order of the relation maps (any order here)
related(ix, arg) ==
  LET explicit == { sortByScore([i \in 1..Len(order) |->
                                   Result(order[i], relatedScore(ix, arg, order[i]))]) :
                    order \in Orderings(relatedCats(ix, arg)) }
      all == UNION { IF Len(c) < arg.options.amount
                     THEN { withFallback(c, f) : f \in predictWeightedText(ix) }
                     ELSE { c } : c \in explicit }
  IN { norm(c, arg.options, ix) : c \in all }

\* the arguments related() is called with
RelatedArgs ==
  { RelatedName("Tech", Options("objects", 5, 0)),
    RelatedName("News", Options("array", 2, 0)),
    RelatedArg(<< <<"Tech", 1>>, <<"News", 1>> >>, Options("objects", 5, 0)),
    RelatedArg(<< <<"sun", 3>>, <<"News", 1>> >>, Options("objects", 5, 0)),
    RelatedArg(<< <<"tech", 2>> >>, Options("objects", 1, 0)),
    RelatedArg(<< <<"Tech", 1>>, <<"News", 3>> >>, Options("array", 1, 0)),
    RelatedArg(<< <<"sun", 2>>, <<"Tech", 1>> >>, Options("objects", 0, 2)) }

(***************************************************************************)
(* reduce, Steps 6 and 7 as loops: kmeans(vectors, k, maxIter) and the     *)
(* re-split loop.  A point is the position of a name in categoryKeys.  The *)
(* nearest centroid of a point depends on Math.random() (the centroids     *)
(* kmeans++ draws, the directions of the names without data), so one       *)
(* iteration may produce any assignment of the points to the k centroids.  *)
(***************************************************************************)

\* kmeans(vectors, k, maxIter = 300), scaled down
maxIter == 3

\* the clustering of a reduce call that has not reached Step 6
NoRun == [phase |-> "none", points |-> <<>>, k |-> 0, iter |-> 0, assignments |-> <<>>,
          result |-> <<>>, clusters |-> <<>>, sub |-> FALSE, at |-> 0, target |-> 0,
          capped |-> FALSE, splits |-> 0, failed |-> FALSE]

\* variant of the loop header that does not count the iterations
sameIter(iter) == iter

\* for (let iter = 0; iter < maxIter; iter++): the increment
nextIter(iter) == iter + 1

\* for (let iter = 0; iter < maxIter; iter++): the test
iterating(iter) == iter < maxIter

\* kmeans(vectors, k): the early return for n < k, or the state before the
\* first iteration (assignments = new Array(n).fill(0))
kmeans(run, points, k, sub) ==
  IF Len(points) < k
  THEN [run EXCEPT !.phase = "returned", !.sub = sub, !.points = points, !.k = k,
                   !.result = [i \in 1..Len(points) |-> << points[i] >>]]
  ELSE [run EXCEPT !.phase = "lloyd", !.sub = sub, !.points = points, !.k = k, !.iter = 0,
                   !.assignments = [i \in 1..Len(points) |-> 0]]

\* the values newAssignments can take
newAssignments(run) == [1..Len(run.points) -> 0..(run.k - 1)]

\* the points of one cluster in index order
RECURSIVE members(_, _, _)
members(run, cluster, i) ==
  IF i > Len(run.points) THEN <<>>
  ELSE (IF run.assignments[i] = cluster THEN << run.points[i] >> ELSE <<>>)
       \o members(run, cluster, i + 1)

\* the end of kmeans: clusters.filter(cluster => cluster.length > 0)
nonEmptyClusters(run) ==
  LET NonEmpty(cluster) == cluster # <<>>
  IN SelectSeq([c \in 1..run.k |-> members(run, c - 1, 1)], NonEmpty)

\* largestClusterIdx: the first cluster of the greatest length
largestClusterIdx(clusters) ==
  CHOOSE i \in 1..Len(clusters) :
    /\ \A j \in 1..Len(clusters) : Len(clusters[j]) <= Len(clusters[i])
    /\ \A j \in 1..(i - 1) : Len(clusters[j]) < Len(clusters[i])

\* clusters.splice(largestClusterIdx, 1, newCluster1, newCluster2)
splice(clusters, at, subClusters) ==
  SubSeq(clusters, 1, at - 1) \o subClusters \o SubSeq(clusters, at + 1, Len(clusters))

\* the test of the re-split loop
splitting(clusters, target) ==
  Len(clusters) < target /\ \E i \in 1..Len(clusters) : Len(clusters[i]) > 1

(***************************************************************************)
(* Calls in flight                                                         *)
(***************************************************************************)

Slots == 1..MaxInflight

\* the argument of a call that takes none of the modelled ones
NoArg == ListArg(<<>>, 0)

Idle == [op |-> "idle", pc |-> "", text |-> <<>>, tok |-> 0, own |-> 0, ov |-> FALSE,
         pf |-> FALSE, late |-> FALSE, snap |-> NewIndex, arg |-> NoArg, run |-> NoRun]

Active == {s \in Slots : inflight[s].op # "idle"}

\* promises are numbered; a number is reused once nothing refers to it
Promises == 0..(MaxInflight + 1)

Referenced ==
  {trained} \cup {inflight[s].tok : s \in {a \in Active : inflight[a].pc = "trained"}}
            \cup {inflight[s].own : s \in {a \in Active : inflight[a].op = "train" /\ inflight[a].pc # "init"}}

NewPromise == CHOOSE t \in Promises \ Referenced : \A u \in Promises \ Referenced : t <= u

\* a train call that has run its ingestion and has not called release()
WriterActive ==
  \E s \in Active : inflight[s].op = "train" /\ inflight[s].pc \in {"ovStat", "ovRet", "purged"}

NoCall ==
  [op |-> "none", result |-> "none", late |-> FALSE, racy |-> FALSE, early |-> FALSE,
   checked |-> FALSE, pf |-> FALSE, released |-> FALSE, kept |-> FALSE, guard |-> FALSE,
   intact |-> FALSE, terms |-> 0, avg |-> NullAvg, arg |-> NoArg, out |-> <<>>,
   ix |-> NewIndex, cache |-> NoCache]

Finished(op, result, late) == [NoCall EXCEPT !.op = op, !.result = result, !.late = late]

NoPurge == [ran |-> FALSE, acted |-> FALSE, usable |-> FALSE, allowed |-> 0, before |-> <<>>,
            again |-> FALSE, prior |-> FALSE, same |-> FALSE]

\* the record of the last purge() that returned without throwing, kept until the
\* Index or the estimate changes again: whether it evicted (acted), the allowed
\* term count, the term-occurrence totals it started from, whether it ran right
\* after another purge (again), whether that one had evicted (prior), and whether
\* it left the Index as it found it (same)
PurgeRecord(lp, ix, avg, after) ==
  [ran |-> TRUE, acted |-> ~PurgeReturnsEarly(ix, avg), usable |-> AllowedUsable(avg),
   allowed |-> IF AllowedUsable(avg) THEN allowedOmens(avg) ELSE 0,
   before |-> [c \in 1..Len(ix.omenFrequencies) |-> SumMap(ix.omenFrequencies[c])],
   again |-> lp.ran, prior |-> lp.acted, same |-> (after = ix)]

Stale(lp) == NoPurge

NotReloaded == [loaded |-> FALSE, ix |-> NewIndex, src |-> NewIndex, size |-> 0, ok |-> FALSE]

(***************************************************************************)
(* Initial state: the constructor has run and has started init()           *)
(***************************************************************************)

\* a model file left by an earlier run: one saved after one training call
EarlierFile ==
  WrittenFile(Ingest(NewIndex, << Example(<<"sun", "sky">>, <<"Tech">>, FALSE) >>), 6)

CorruptFile == [state |-> "corrupt", doc |-> EmptyMap, size |-> 3, src |-> NewIndex]

\* a model file written by a release that counts the documents it trains
ImportedFile ==
  WrittenFile([Ingest(NewIndex, << Example(<<"sun", "sky">>, <<"Tech">>, FALSE) >>)
                 EXCEPT !.totalDocuments = 1], 3)

\* a model file of no bytes
EmptyFile == [state |-> "empty", doc |-> EmptyMap, size |-> 0, src |-> NewIndex]

InitWith(files) ==
  /\ index = NewIndex
  /\ avgOmenSize = NullAvg
  /\ isPurging = FALSE
  /\ isSaving = FALSE
  /\ preprocessed = NoCache
  /\ create \in BOOLEAN
  /\ initialized = "pending"
  /\ initPc = "stat"
  /\ trained = 0
  /\ pending = {}
  /\ file \in files
  /\ inflight = [s \in Slots |-> Idle]
  /\ last = NoCall
  /\ lastPurge = NoPurge
  /\ destroyed = FALSE
  /\ reloaded = NotReloaded

(***************************************************************************)
(* init() and load()                                                       *)
(***************************************************************************)

\* variant of the constructor that resolves this.initialized whatever init() does
SettleResolved(outcome) == IF initialized = "pending" THEN "resolved" ELSE initialized

\* this.init().then(resolve).catch(reject): a settled promise stays as it is
Settle(outcome) == IF initialized = "pending" THEN outcome ELSE initialized

\* init(): the stat of the model file, and the branch for a missing or empty file
InitStat ==
  /\ initPc = "stat"
  /\ IF statSize(file) = 0
     THEN /\ initPc' = "done"
          /\ IF create
             THEN /\ index' = reset(index)
                  /\ lastPurge' = Stale(lastPurge)
                  /\ initialized' = Settle("resolved")
             ELSE /\ initialized' = Settle("rejected")
                  /\ UNCHANGED << index, lastPurge >>
     ELSE /\ initPc' = "load"
          /\ UNCHANGED << index, lastPurge, initialized >>
  /\ UNCHANGED << avgOmenSize, isPurging, isSaving, preprocessed, create, trained, pending,
                  file, inflight, last, destroyed, reloaded >>

\* load(): readFile, expand and fromJSON have finished; the fields are assigned.
\* A file that does not decompress throws: init() resets if create, else rejects.
InitLoad ==
  /\ initPc = "load"
  /\ IF file.state = "ok"
     THEN /\ index' = loadFields(file.doc, index)
          /\ initPc' = "over"
          /\ UNCHANGED initialized
     ELSE /\ initPc' = "done"
          /\ IF create
             THEN /\ index' = reset(index)
                  /\ initialized' = Settle("resolved")
             ELSE /\ initialized' = Settle("rejected")
                  /\ UNCHANGED index
  /\ lastPurge' = Stale(lastPurge)
  /\ UNCHANGED << avgOmenSize, isPurging, isSaving, preprocessed, create, trained, pending,
                  file, inflight, last, destroyed, reloaded >>

\* overloaded(): the estimate it leaves in this.avgOmenSize, given the size stat reports
overloadedAvg(ix, avg, size) ==
  IF AvgMissing(avg) /\ size # 0 THEN Quotient(size, Len(ix.omens)) ELSE avg

\* overloaded(): its result
overloaded(ix, avg, size) ==
  IF AvgMissing(avg) /\ size = 0 THEN FALSE ELSE overloadedNow(ix, overloadedAvg(ix, avg, size))

\* init(), last block: the estimate is recomputed when there are omens
initAvg(ix, avg, size) == IF Len(ix.omens) > 0 THEN Quotient(size, Len(ix.omens)) ELSE avg

\* load() from "if (await this.overloaded())" on, then the last block of init():
\* save(true) purges, writes the file and recomputes the estimate
InitFinish ==
  /\ initPc = "over"
  /\ initPc' = "done"
  /\ initialized' = Settle("resolved")
  /\ LET avg1 == overloadedAvg(index, avgOmenSize, statSize(file))
     IN IF overloaded(index, avgOmenSize, statSize(file))
        THEN \E size \in FileSizes :
               /\ index' = purged(index, avg1)
               /\ lastPurge' = PurgeRecord(lastPurge, index, avg1, index')
               /\ file' = WrittenFile(index', size)
               /\ avgOmenSize' = initAvg(index', Quotient(size, Len(index'.omens)), size)
        ELSE /\ avgOmenSize' = initAvg(index, avg1, statSize(file))
             /\ lastPurge' = Stale(lastPurge)
             /\ UNCHANGED << index, file >>
  /\ UNCHANGED << isPurging, isSaving, preprocessed, create, trained, pending,
                  inflight, last, destroyed, reloaded >>

\* a fresh instance with the same options is constructed on the model file and
\* its initialization runs to the end (load, overloaded, save(true), last block)
LoadFresh ==
  /\ file.state = "ok"
  /\ initPc = "done" /\ Active = {}
  /\ ~reloaded.loaded
  /\ LET ix1 == loadFields(file.doc, NewIndex)
         avg1 == overloadedAvg(ix1, NullAvg, statSize(file))
         ov == overloaded(ix1, NullAvg, statSize(file))
         ix2 == IF ov THEN purged(ix1, avg1) ELSE ix1
     IN /\ reloaded' = [loaded |-> TRUE, ix |-> ix2, src |-> file.src, size |-> file.size, ok |-> TRUE]
        /\ IF ov
           THEN \E size \in FileSizes : file' = WrittenFile(ix2, size)
           ELSE UNCHANGED file
  /\ UNCHANGED << index, avgOmenSize, isPurging, isSaving, preprocessed, create, initialized,
                  initPc, trained, pending, inflight, last, lastPurge, destroyed >>

(***************************************************************************)
(* Calls.  A call occupies the lowest idle slot from the moment it is made *)
(* until it returns or throws.                                             *)
(***************************************************************************)

FreeSlot == CHOOSE s \in Slots \ Active : \A t \in Slots \ Active : s <= t

CanCall(limit) == Cardinality(Active) < limit

Start(op, text) ==
  /\ inflight' = [inflight EXCEPT ![FreeSlot] =
                    [Idle EXCEPT !.op = op, !.pc = "init", !.text = text, !.late = destroyed]]
  /\ last' = NoCall

Finish(s, rec) ==
  /\ inflight' = [inflight EXCEPT ![s] = Idle]
  /\ last' = rec

\* the state a throw inside purge()'s try block leaves: the five assignments of
\* "Update final state" are the last statements of the block, none has run
purgeFailed(ix, allowed) == ix

\* variant of train() without the .catch
purgeErrorThrown == "thrown"

\* train(): "await this.purge().catch(() => {})" keeps a purge error from the caller
purgeErrorInTrain == "swallowed"

\* variant of save() that clears the guard on the success path only
savingStuck(failed) == failed

\* save(): the finally block clears the guard on every path
savingAfterSave(failed) == FALSE

\* purge(): the finally block clears the guard on every path
purgingAfterPurge(failed) == FALSE

\* train(text): called; it waits for this.initialized
TrainUpTo(batches, limit, maxDocs) ==
  /\ CanCall(limit)
  /\ \E text \in batches :
       /\ DocLoad(index) + BatchLoad(text)
            + SumSeq([s \in Slots |-> IF inflight[s].op = "train" /\ inflight[s].pc = "init"
                                      THEN BatchLoad(inflight[s].text) ELSE 0]) <= maxDocs
       /\ RelLoad(index) <= maxDocs
       /\ Start("train", text)
  /\ UNCHANGED << index, avgOmenSize, isPurging, isSaving, preprocessed, create, initialized,
                  initPc, trained, pending, file, lastPurge, destroyed, reloaded >>

TrainCall(batches, limit) == TrainUpTo(batches, limit, MaxDocs)

\* train(): from the end of "await this.initialized" to the first await after it,
\* or to the return when there is none
TrainIngest(s) ==
  /\ inflight[s].op = "train" /\ inflight[s].pc = "init"
  /\ initialized # "pending"
  /\ LET c == inflight[s]
         own == NewPromise
         text == FilterBatch(c.text)
         ix1 == Ingest(index, text)
         done(ix, checked, released) ==
           [Finished("train", "ok", c.late) EXCEPT
              !.checked = checked, !.released = released, !.kept = TRUE,
              !.terms = Len(ix.omens), !.avg = avgOmenSize]
     IN IF initialized = "rejected"
        THEN /\ Finish(s, Finished("train", "error", c.late))
             /\ UNCHANGED << index, preprocessed, trained, pending, lastPurge >>
        ELSE /\ preprocessed' = NoCache
             /\ trained' = own
             /\ IF text = <<>>
                THEN \* return without release()
                     /\ pending' = pending \cup {own}
                     /\ Finish(s, done(index, FALSE, FALSE))
                     /\ UNCHANGED << index, lastPurge >>
                ELSE /\ index' = ix1
                     /\ lastPurge' = Stale(lastPurge)
                     /\ IF isPurging \/ isSaving
                        THEN /\ pending' = pending \ {own}
                             /\ Finish(s, done(ix1, FALSE, TRUE))
                        ELSE /\ pending' = pending \cup {own}
                             /\ last' = last
                             /\ inflight' = [inflight EXCEPT ![s] =
                                  [c EXCEPT !.own = own, !.snap = ix1,
                                            !.pc = IF AvgMissing(avgOmenSize) THEN "ovStat" ELSE "ovRet",
                                            !.ov = overloadedNow(ix1, avgOmenSize)]]
  /\ UNCHANGED << avgOmenSize, isPurging, isSaving, create, initialized, initPc, file,
                  destroyed, reloaded >>

\* overloaded() called by train(): the stat of the file has returned
TrainStat(s) ==
  /\ inflight[s].op = "train" /\ inflight[s].pc = "ovStat"
  /\ avgOmenSize' = IF statSize(file) = 0 THEN avgOmenSize
                    ELSE Quotient(statSize(file), Len(index.omens))
  /\ lastPurge' = IF avgOmenSize' = avgOmenSize THEN lastPurge ELSE Stale(lastPurge)
  /\ inflight' = [inflight EXCEPT ![s].pc = "ovRet",
                                  ![s].ov = overloaded(index, NullAvg, statSize(file))]
  /\ UNCHANGED << index, isPurging, isSaving, preprocessed, create, initialized, initPc,
                  trained, pending, file, last, destroyed, reloaded >>

\* train(): overloaded() has answered; purge() runs if it said yes, else train() returns
TrainCheck(s) ==
  /\ inflight[s].op = "train" /\ inflight[s].pc = "ovRet"
  /\ LET c == inflight[s]
         done == [Finished("train", "ok", c.late) EXCEPT
                    !.checked = TRUE, !.released = TRUE, !.kept = (index = c.snap),
                    !.terms = Len(index.omens), !.avg = avgOmenSize]
     IN IF ~c.ov
        THEN /\ preprocessed' = NoCache
             /\ pending' = pending \ {c.own}
             /\ Finish(s, done)
             /\ UNCHANGED << index, isPurging, lastPurge >>
        ELSE IF PurgeReturnsEarly(index, avgOmenSize)
        THEN /\ inflight' = [inflight EXCEPT ![s].pc = "purged"]
             /\ lastPurge' = PurgeRecord(lastPurge, index, avgOmenSize, index)
             /\ UNCHANGED << index, isPurging, preprocessed, pending, last >>
        ELSE \E fail \in BOOLEAN :
               /\ isPurging' = purgingAfterPurge(fail)
               /\ IF fail
                  THEN /\ index' = purgeFailed(index, allowedOmens(avgOmenSize))
                       /\ UNCHANGED << lastPurge, preprocessed >>
                       /\ IF purgeErrorInTrain = "swallowed"
                          THEN /\ inflight' = [inflight EXCEPT ![s].pc = "purged", ![s].pf = TRUE]
                               /\ UNCHANGED << pending, last >>
                          ELSE /\ Finish(s, [Finished("train", "error", c.late) EXCEPT
                                               !.pf = TRUE, !.released = c.own \notin pending,
                                               !.kept = (index' = c.snap)])
                               /\ UNCHANGED pending
                  ELSE /\ index' = purgeBody(index, allowedOmens(avgOmenSize))
                       /\ lastPurge' = PurgeRecord(lastPurge, index, avgOmenSize, index')
                       /\ inflight' = [inflight EXCEPT ![s].pc = "purged"]
                       /\ UNCHANGED << preprocessed, pending, last >>
  /\ UNCHANGED << avgOmenSize, isSaving, create, initialized, initPc, trained, file,
                  destroyed, reloaded >>

\* train(): after "await this.purge().catch(...)": the cache flag, release(), return
TrainFinish(s) ==
  /\ inflight[s].op = "train" /\ inflight[s].pc = "purged"
  /\ LET c == inflight[s]
     IN /\ preprocessed' = NoCache
        /\ pending' = pending \ {c.own}
        /\ Finish(s, [Finished("train", "ok", c.late) EXCEPT
                        !.checked = TRUE, !.pf = c.pf, !.released = c.own \notin pending',
                        !.kept = (index = c.snap),
                        !.terms = Len(index.omens), !.avg = avgOmenSize])
  /\ UNCHANGED << index, avgOmenSize, isPurging, isSaving, create, initialized, initPc,
                  trained, file, lastPurge, destroyed, reloaded >>

\* predict(text) or reduce(categories): called; it waits for this.initialized
ReadCall(limit) ==
  /\ CanCall(limit)
  /\ \E op \in {"predict", "reduce"} : Start(op, <<>>)
  /\ UNCHANGED << index, avgOmenSize, isPurging, isSaving, preprocessed, create, initialized,
                  initPc, trained, pending, file, lastPurge, destroyed, reloaded >>

\* predict(text) is called with a text and the default options
PredictCall(limit) ==
  /\ CanCall(limit)
  /\ Start("predict", <<>>)
  /\ UNCHANGED << index, avgOmenSize, isPurging, isSaving, preprocessed, create, initialized,
                  initPc, trained, pending, file, lastPurge, destroyed, reloaded >>

\* reduce(categories, {amount}) is called with one of the given arguments
ReduceCall(args, limit) ==
  /\ CanCall(limit)
  /\ \E arg \in args :
        /\ inflight' = [inflight EXCEPT ![FreeSlot] =
                          [Idle EXCEPT !.op = "reduce", !.pc = "init", !.arg = arg,
                                       !.late = destroyed]]
        /\ last' = NoCall
  /\ UNCHANGED << index, avgOmenSize, isPurging, isSaving, preprocessed, create, initialized,
                  initPc, trained, pending, file, lastPurge, destroyed, reloaded >>

\* predict() / reduce(): "await this.initialized" is over; "await this.trained"
\* takes the promise this.trained refers to now
ReadInit(s) ==
  /\ inflight[s].op \in {"predict", "reduce"} /\ inflight[s].pc = "init"
  /\ initialized # "pending"
  /\ IF initialized = "rejected"
     THEN Finish(s, Finished(inflight[s].op, "error", inflight[s].late))
     ELSE /\ inflight' = [inflight EXCEPT ![s].pc = "trained", ![s].tok = trained]
          /\ UNCHANGED last
  /\ UNCHANGED << index, avgOmenSize, isPurging, isSaving, preprocessed, create, initialized,
                  initPc, trained, pending, file, lastPurge, destroyed, reloaded >>

\* predict() / reduce(): the awaited promise is resolved; the result is computed
\* from the Index (predictText builds the cache unless totalDocuments is 0)
ReadCompute(s) ==
  /\ inflight[s].op \in {"predict", "reduce"} /\ inflight[s].pc = "trained"
  /\ inflight[s].tok \notin pending
  /\ preprocessed' = IF inflight[s].op = "predict" /\ index.totalDocuments # 0
                     THEN preprocess(index, preprocessed) ELSE preprocessed
  /\ IF inflight[s].op = "reduce" /\ ~ValidCategories(inflight[s].arg)
     THEN \* throw new Error('Invalid categories type')
          Finish(s, [Finished("reduce", "error", inflight[s].late) EXCEPT
                       !.racy = WriterActive, !.arg = inflight[s].arg, !.ix = index])
     ELSE \E out \in IF inflight[s].op = "reduce"
                     THEN reduceResults(index, inflight[s].arg)
                     ELSE { norm(r, PredictOptions, index) : r \in predictText(index) } :
            Finish(s, [Finished(inflight[s].op, "ok", inflight[s].late) EXCEPT
                         !.racy = WriterActive, !.arg = inflight[s].arg, !.out = out,
                         !.ix = index,
                         !.cache = IF inflight[s].op = "predict" /\ index.totalDocuments # 0
                                   THEN preprocess(index, preprocessed) ELSE NoCache])
  /\ UNCHANGED << index, avgOmenSize, isPurging, isSaving, create, initialized,
                  initPc, trained, pending, file, lastPurge, destroyed, reloaded >>

\* reduce() taken loop by loop.  The awaited promise is resolved: Steps 1 to 5,
\* then the first call of kmeans
ReduceCluster(s) ==
  /\ inflight[s].op = "reduce" /\ inflight[s].pc = "trained"
  /\ inflight[s].tok \notin pending
  /\ IF ~ValidCategories(inflight[s].arg)
     THEN Finish(s, [Finished("reduce", "error", inflight[s].late) EXCEPT
                       !.arg = inflight[s].arg, !.ix = index])
     ELSE LET count == Len(allCategories(inflight[s].arg))
              start == [NoRun EXCEPT !.target = numClusters(inflight[s].arg)]
          IN /\ inflight' = [inflight EXCEPT
                               ![s].pc = "clusters",
                               ![s].run = kmeans(start, [i \in 1..count |-> i],
                                                 numClusters(inflight[s].arg), FALSE)]
             /\ UNCHANGED last
  /\ UNCHANGED << index, avgOmenSize, isPurging, isSaving, preprocessed, create, initialized,
                  initPc, trained, pending, file, lastPurge, destroyed, reloaded >>

\* kmeans: one iteration of the reassignment loop, ended by break when no
\* point changes its cluster
LloydIterate(s) ==
  /\ inflight[s].pc = "clusters" /\ inflight[s].run.phase = "lloyd"
  /\ iterating(inflight[s].run.iter)
  /\ \E new \in newAssignments(inflight[s].run) :
        inflight' = [inflight EXCEPT ![s].run =
                       IF new = inflight[s].run.assignments
                       THEN [@ EXCEPT !.phase = "collect"]
                       ELSE [@ EXCEPT !.assignments = new, !.iter = nextIter(@)]]
  /\ UNCHANGED << index, avgOmenSize, isPurging, isSaving, preprocessed, create, initialized,
                  initPc, trained, pending, file, last, lastPurge, destroyed, reloaded >>

\* kmeans: the loop ends because iter has reached maxIter
LloydExit(s) ==
  /\ inflight[s].pc = "clusters" /\ inflight[s].run.phase = "lloyd"
  /\ ~iterating(inflight[s].run.iter)
  /\ inflight' = [inflight EXCEPT ![s].run.phase = "collect", ![s].run.capped = TRUE]
  /\ UNCHANGED << index, avgOmenSize, isPurging, isSaving, preprocessed, create, initialized,
                  initPc, trained, pending, file, last, lastPurge, destroyed, reloaded >>

\* kmeans: the clusters are collected and returned
KmeansReturn(s) ==
  /\ inflight[s].pc = "clusters" /\ inflight[s].run.phase = "collect"
  /\ inflight' = [inflight EXCEPT ![s].run.phase = "returned",
                                  ![s].run.result = nonEmptyClusters(inflight[s].run)]
  /\ UNCHANGED << index, avgOmenSize, isPurging, isSaving, preprocessed, create, initialized,
                  initPc, trained, pending, file, last, lastPurge, destroyed, reloaded >>

\* Step 7: kmeans has returned, to "let clusters = kmeans(...)" or to the body
\* of the re-split loop, which splices two sub-clusters in or breaks; then the
\* test of the loop: another kmeans on the largest cluster, or Steps 8 and 9
SplitLoop(s) ==
  /\ inflight[s].pc = "clusters" /\ inflight[s].run.phase = "returned"
  /\ LET run == inflight[s].run
         break == run.sub /\ Len(run.result) # 2
         clusters == IF ~run.sub THEN run.result
                     ELSE IF break THEN run.clusters
                     ELSE splice(run.clusters, run.at, run.result)
         after == [run EXCEPT !.clusters = clusters, !.failed = break,
                              !.splits = IF run.sub /\ ~break THEN @ + 1 ELSE @]
     IN IF ~break /\ splitting(clusters, run.target)
        THEN /\ inflight' = [inflight EXCEPT ![s].run =
                               kmeans([after EXCEPT !.at = largestClusterIdx(clusters)],
                                      clusters[largestClusterIdx(clusters)], 2, TRUE)]
             /\ UNCHANGED last
        ELSE Finish(s, [Finished("reduce", "ok", inflight[s].late) EXCEPT
                          !.arg = inflight[s].arg, !.ix = index,
                          !.out = [after EXCEPT !.phase = "done"]])
  /\ UNCHANGED << index, avgOmenSize, isPurging, isSaving, preprocessed, create, initialized,
                  initPc, trained, pending, file, lastPurge, destroyed, reloaded >>

\* related(inputScores): a synchronous method, it reads the Index where it stands
RelatedWith(args) ==
  /\ \E arg \in args : \E out \in related(index, arg) :
        last' = [Finished("related", "ok", destroyed) EXCEPT
                   !.racy = WriterActive, !.early = (initialized = "pending"),
                   !.arg = arg, !.out = out, !.ix = index]
  /\ UNCHANGED << index, avgOmenSize, isPurging, isSaving, preprocessed, create, initialized,
                  initPc, trained, pending, file, inflight, lastPurge, destroyed, reloaded >>

RelatedCall == RelatedWith({ RelatedName("Tech", Options("objects", 5, 0)) })

\* save(): called without force; the guard is set before the first await
SaveCall(limit) ==
  /\ CanCall(limit)
  /\ isSaving' = TRUE
  /\ Start("save", <<>>)
  /\ UNCHANGED << index, avgOmenSize, isPurging, preprocessed, create, initialized,
                  initPc, trained, pending, file, lastPurge, destroyed, reloaded >>

\* how a save() that threw ends: catch, finally, rethrow
SaveThrows(s, pf, ix) ==
  /\ isSaving' = savingAfterSave(TRUE)
  /\ Finish(s, [Finished("save", "error", inflight[s].late) EXCEPT
                  !.pf = pf, !.guard = isSaving', !.intact = (ix = index)])

\* save(): "await this.initialized" is over
SaveInit(s) ==
  /\ inflight[s].op = "save" /\ inflight[s].pc = "init"
  /\ initialized # "pending"
  /\ IF initialized = "rejected"
     THEN SaveThrows(s, FALSE, index)
     ELSE /\ inflight' = [inflight EXCEPT ![s].pc = "trained", ![s].tok = trained]
          /\ UNCHANGED << isSaving, last >>
  /\ UNCHANGED << index, avgOmenSize, isPurging, preprocessed, create, initialized,
                  initPc, trained, pending, file, lastPurge, destroyed, reloaded >>

\* save(): "await this.trained" is over; purge() runs
SavePurge(s) ==
  /\ inflight[s].op = "save" /\ inflight[s].pc = "trained"
  /\ inflight[s].tok \notin pending
  /\ IF PurgeReturnsEarly(index, avgOmenSize)
     THEN /\ inflight' = [inflight EXCEPT ![s].pc = "purged"]
          /\ lastPurge' = PurgeRecord(lastPurge, index, avgOmenSize, index)
          /\ UNCHANGED << index, isPurging, isSaving, last >>
     ELSE \E fail \in BOOLEAN :
            /\ isPurging' = purgingAfterPurge(fail)
            /\ IF fail
               THEN /\ index' = purgeFailed(index, allowedOmens(avgOmenSize))
                    /\ SaveThrows(s, TRUE, index')
                    /\ UNCHANGED lastPurge
               ELSE /\ index' = purgeBody(index, allowedOmens(avgOmenSize))
                    /\ lastPurge' = PurgeRecord(lastPurge, index, avgOmenSize, index')
                    /\ inflight' = [inflight EXCEPT ![s].pc = "purged"]
                    /\ UNCHANGED << isSaving, last >>
  /\ UNCHANGED << avgOmenSize, preprocessed, create, initialized, initPc, trained, pending,
                  file, destroyed, reloaded >>

\* save(): this.toJSON() is evaluated and handed to Persistence.saveModel
SaveSerialize(s) ==
  /\ inflight[s].op = "save" /\ inflight[s].pc = "purged"
  /\ inflight' = [inflight EXCEPT ![s].pc = "writing", ![s].snap = index]
  /\ UNCHANGED << index, avgOmenSize, isPurging, isSaving, preprocessed, create, initialized,
                  initPc, trained, pending, file, last, lastPurge, destroyed, reloaded >>

\* Persistence.saveModel: the compressed document is written, or the write fails.
\* readBack tells whether the specification reads the document back later.
SaveWrite(s, readBack) ==
  /\ inflight[s].op = "save" /\ inflight[s].pc = "writing"
  /\ \/ /\ \E size \in FileSizes :
             file' = IF readBack THEN WrittenFile(inflight[s].snap, size) ELSE SizedFile(size)
        /\ inflight' = [inflight EXCEPT ![s].pc = "stat"]
        /\ UNCHANGED << isSaving, last >>
     \/ /\ SaveThrows(s, FALSE, index)
        /\ UNCHANGED file
  /\ UNCHANGED << index, avgOmenSize, isPurging, preprocessed, create, initialized,
                  initPc, trained, pending, lastPurge, destroyed, reloaded >>

\* save(): the stat of the written file, the new estimate, finally
SaveStat(s) ==
  /\ inflight[s].op = "save" /\ inflight[s].pc = "stat"
  /\ avgOmenSize' = Quotient(statSize(file), Len(index.omens))
  /\ lastPurge' = IF avgOmenSize' = avgOmenSize THEN lastPurge ELSE Stale(lastPurge)
  /\ isSaving' = savingAfterSave(FALSE)
  /\ Finish(s, [Finished("save", "ok", inflight[s].late) EXCEPT !.guard = isSaving'])
  /\ UNCHANGED << index, isPurging, preprocessed, create, initialized, initPc, trained,
                  pending, file, destroyed, reloaded >>

\* purge(): called directly; it has no await, so it runs to its end
PurgeCall ==
  /\ IF PurgeReturnsEarly(index, avgOmenSize)
     THEN /\ last' = [Finished("purge", "ok", destroyed) EXCEPT !.guard = isPurging, !.intact = TRUE]
          /\ lastPurge' = PurgeRecord(lastPurge, index, avgOmenSize, index)
          /\ UNCHANGED << index, isPurging >>
     ELSE \E fail \in BOOLEAN :
            /\ isPurging' = purgingAfterPurge(fail)
            /\ IF fail
               THEN /\ index' = purgeFailed(index, allowedOmens(avgOmenSize))
                    /\ last' = [Finished("purge", "error", destroyed) EXCEPT
                                  !.pf = TRUE, !.guard = isPurging', !.intact = (index' = index)]
                    /\ UNCHANGED lastPurge
               ELSE /\ index' = purgeBody(index, allowedOmens(avgOmenSize))
                    /\ lastPurge' = PurgeRecord(lastPurge, index, avgOmenSize, index')
                    /\ last' = [Finished("purge", "ok", destroyed) EXCEPT !.guard = isPurging']
  /\ UNCHANGED << avgOmenSize, isSaving, preprocessed, create, initialized, initPc, trained,
                  pending, file, inflight, destroyed, reloaded >>

\* reset()
ResetCall ==
  /\ index # reset(index)
  /\ index' = reset(index)
  /\ lastPurge' = Stale(lastPurge)
  /\ last' = Finished("reset", "ok", destroyed)
  /\ UNCHANGED << avgOmenSize, isPurging, isSaving, preprocessed, create, initialized, initPc,
                  trained, pending, file, inflight, destroyed, reloaded >>

\* destroy(): reset(), then the reject function of this.initialized is called,
\* which has an effect only on a promise that is still pending
DestroyCall ==
  /\ ~destroyed
  /\ index' = reset(index)
  /\ lastPurge' = Stale(lastPurge)
  /\ initialized' = Settle("rejected")
  /\ destroyed' = TRUE
  /\ last' = Finished("destroy", "ok", FALSE)
  /\ UNCHANGED << avgOmenSize, isPurging, isSaving, preprocessed, create, initPc,
                  trained, pending, file, inflight, reloaded >>

(***************************************************************************)
(* Specifications                                                          *)
(***************************************************************************)

\* the continuations of the calls in flight, one per await
TrainSteps == \E s \in Slots : TrainIngest(s) \/ TrainStat(s) \/ TrainCheck(s) \/ TrainFinish(s)

ReadSteps == \E s \in Slots : ReadInit(s) \/ ReadCompute(s)

SaveSteps(readBack) ==
  \E s \in Slots :
    SaveInit(s) \/ SavePurge(s) \/ SaveSerialize(s) \/ SaveWrite(s, readBack) \/ SaveStat(s)

\* Spec: the calls that change the Index (train, save, purge, reset), made one
\* after the other, each awaited before the next is made; no model file at
\* construction, and the document save() writes is not read back
Init == InitWith({NoFile})

Next ==
  \/ InitStat
  \/ TrainCall(Batches, 1) \/ SaveCall(1)
  \/ (Active = {} /\ PurgeCall)
  \/ (Active = {} /\ ResetCall)
  \/ TrainSteps \/ SaveSteps(FALSE)

Spec == Init /\ [][Next]_vars

\* SpecLife: the life of an instance up to and after destroy(); train, predict,
\* reduce, save and related are called one after the other
InitLife == InitWith({NoFile})

NextLife ==
  \/ InitStat
  \/ TrainCall(ConcBatches, 1) \/ ReadCall(1) \/ SaveCall(1)
  \/ (Active = {} /\ RelatedCall)
  \/ (Active = {} /\ DestroyCall)
  \/ TrainSteps \/ ReadSteps \/ SaveSteps(FALSE)

SpecLife == InitLife /\ [][NextLife]_vars

\* SpecConc: train, predict, reduce and related are called without awaiting
\* the earlier calls, on an instance that starts with or without a model file
InitConc == InitWith({NoFile, EarlierFile}) /\ create = TRUE

NextConc ==
  \/ InitStat \/ InitLoad \/ InitFinish
  \/ TrainCall(ConcBatches, MaxInflight) \/ ReadCall(MaxInflight)
  \/ RelatedCall
  \/ TrainSteps \/ ReadSteps

SpecConc == InitConc /\ [][NextConc]_vars

\* SpecFile: the instance starts on any kind of model file, trains and saves;
\* then a second instance is constructed on the file, which ends the scenario
InitFile == InitWith({NoFile, EarlierFile, CorruptFile})

NextFile ==
  \/ InitStat \/ InitLoad \/ InitFinish
  \/ (~reloaded.loaded /\ TrainCall(FileBatches, 1))
  \/ (~reloaded.loaded /\ SaveCall(1))
  \/ TrainSteps \/ SaveSteps(TRUE)
  \/ LoadFresh

SpecFile == InitFile /\ [][NextFile]_vars

\* SpecInit: the persistence specification from every state of the model file,
\* with the steps of init() taken once they can be: init() is started by the
\* constructor and each of its awaits is on a file operation (stat, readFile,
\* expand, saveModel) that ends
InitInit == InitWith({NoFile, EmptyFile, EarlierFile, CorruptFile})

SpecInit ==
  /\ InitInit /\ [][NextFile]_vars
  /\ WF_vars(InitStat) /\ WF_vars(InitLoad) /\ WF_vars(InitFinish)

\* SpecCache: train, predict, save and reset, made one after the other, on a
\* model that starts empty or is loaded from a file that has a document count
InitCache == InitWith({NoFile, ImportedFile}) /\ create = TRUE

NextCache ==
  \/ InitStat \/ InitLoad \/ InitFinish
  \/ TrainCall(ConcBatches, 1) \/ PredictCall(1) \/ SaveCall(1)
  \/ (Active = {} /\ ResetCall)
  \/ TrainSteps \/ ReadSteps \/ SaveSteps(FALSE)

SpecCache == InitCache /\ [][NextCache]_vars

\* Prediction.norm is applied to a candidate list with an adaptive cutoff
NormCall ==
  /\ \E results \in NormResults, limit \in 1..MaxLimit :
        LET options == Options("objects", 1, limit)
        IN last' = [Finished("norm", "ok", FALSE) EXCEPT
                      !.arg = [results |-> results, options |-> options],
                      !.out = norm(results, options, index)]
  /\ UNCHANGED << index, avgOmenSize, isPurging, isSaving, preprocessed, create, initialized,
                  initPc, trained, pending, file, inflight, lastPurge, destroyed, reloaded >>

\* SpecNorm: output shaping as a function of its arguments
InitNorm == InitWith({NoFile}) /\ create = TRUE

NextNorm == NormCall

SpecNorm == InitNorm /\ [][NextNorm]_vars

\* SpecQuery: train and the queries, made one after the other, each awaited
\* before the next is made, on a model that starts empty or from a model file
InitQuery == InitWith({NoFile, EarlierFile}) /\ create = TRUE

NextQuery ==
  \/ InitStat \/ InitLoad \/ InitFinish
  \/ TrainUpTo(QueryBatches, 1, MaxQueryDocs)
  \/ PredictCall(1)
  \/ ReduceCall(ReduceArgs, 1)
  \/ (Active = {} /\ RelatedWith(RelatedArgs))
  \/ (Active = {} /\ ResetCall)
  \/ TrainSteps \/ ReadSteps

SpecQuery == InitQuery /\ [][NextQuery]_vars

\* SpecClusters: reduce calls made one after the other, each taken loop by loop.
\* reduce runs Steps 1 to 9 without an await, so once it has entered Step 6 each
\* of its loop steps is taken
InitClusters == InitWith({NoFile}) /\ create = TRUE

\* the arguments of the reduce calls: lists of up to four names, and null
ClusterArgs ==
  { ListArg(<<>>, 3),
    ListArg(<< "Tech" >>, 3),
    ListArg(<< "Tech", "News" >>, 3),
    ListArg(<< "Tech", "News", "sun" >>, 0),
    ListArg(<< "Tech", "News", "sun" >>, 2),
    ListArg(<< "Tech, News", "Tech", "News", "sun" >>, 3),
    OtherArg("null", 3) }

ClusterSteps(s) ==
  ReduceCluster(s) \/ LloydIterate(s) \/ LloydExit(s) \/ KmeansReturn(s) \/ SplitLoop(s)

NextClusters ==
  \/ InitStat
  \/ ReduceCall(ClusterArgs, 1)
  \/ \E s \in Slots : ReadInit(s)
  \/ \E s \in Slots : ClusterSteps(s)

SpecClusters ==
  /\ InitClusters /\ [][NextClusters]_vars
  /\ \A s \in Slots : WF_vars(ClusterSteps(s))

\* SpecRelease: train, predict, reduce and save called one after the other on
\* an instance without a model file, with every continuation taken once the
\* promise it awaits is settled: an await on a settled promise resumes, and the
\* file operations of overloaded() and save() end
InitRelease == InitWith({NoFile}) /\ create = TRUE

NextRelease ==
  \/ InitStat
  \/ TrainCall(ConcBatches, 1) \/ ReadCall(1) \/ SaveCall(1)
  \/ TrainSteps \/ ReadSteps \/ SaveSteps(FALSE)

\* train() in slot s can run its ingestion: "await this.initialized" is over
TrainReady(s) ==
  inflight[s].op = "train" /\ inflight[s].pc = "init" /\ initialized # "pending"

\* weak fairness of TrainIngest(s), written out: TrainReady(s) is the state
\* predicate ENABLED TrainIngest(s)
TrainIngestFair(s) == []<>(~TrainReady(s)) \/ []<><<TrainIngest(s)>>_vars

SpecRelease ==
  /\ InitRelease /\ [][NextRelease]_vars
  /\ WF_vars(InitStat) /\ WF_vars(ReadSteps) /\ WF_vars(SaveSteps(FALSE))
  /\ WF_vars(\E s \in Slots : TrainStat(s) \/ TrainCheck(s) \/ TrainFinish(s))
  /\ \A s \in Slots : TrainIngestFair(s)

\* SpecSaves: save and train calls made without awaiting the earlier ones, on
\* an instance without a model file
InitSaves == InitWith({NoFile}) /\ create = TRUE

NextSaves ==
  \/ InitStat
  \/ TrainUpTo(ConcBatches, MaxInflight, 1) \/ SaveCall(MaxInflight)
  \/ TrainSteps \/ SaveSteps(FALSE)

SpecSaves == InitSaves /\ [][NextSaves]_vars

\* SpecRelations: train, save and reset calls, each awaited, with examples of several labels:
\* two distinct stems, two labels of one stem, and a text without a term
RelationBatches ==
  { << Example(<<"sun", "sky">>, <<"Tech", "News">>, TRUE) >>,
    << Example(<<"sky">>, <<"Tech", "tech">>, TRUE) >>,
    << Example(<<"a">>, <<"Tech", "News">>, TRUE) >>,
    << Example(<<"sun">>, <<"News", "Spam">>, TRUE) >> }

InitRelations == InitWith({NoFile}) /\ create = TRUE

NextRelations ==
  \/ InitStat
  \/ TrainCall(RelationBatches, 1) \/ SaveCall(1)
  \/ (Active = {} /\ ResetCall)
  \/ TrainSteps \/ SaveSteps(FALSE)

SpecRelations == InitRelations /\ [][NextRelations]_vars

\* SpecDestroy: destroy() called at any moment of the life of an instance that
\* starts with or without a model file, init() still running or not; train and
\* predict are called one after the other
InitDestroy == InitWith({NoFile, EarlierFile, CorruptFile})

NextDestroy ==
  \/ InitStat \/ InitLoad \/ InitFinish
  \/ DestroyCall
  \/ TrainCall(ConcBatches, 1) \/ PredictCall(1)
  \/ TrainSteps \/ ReadSteps

SpecDestroy == InitDestroy /\ [][NextDestroy]_vars

(***************************************************************************)
(* Properties                                                              *)
(***************************************************************************)

ReadOps == {"predict", "reduce"}

\* C1: no predict or reduce computes its result while a train call that has
\* ingested its batch has not yet released the write token (as claimed; the
\* code lets a read resume on the token that was current before the train)
C1_ReadsWaitForTrain ==
  (last.op \in ReadOps /\ last.result = "ok") => ~last.racy

\* C2: related reads the graph and the Index only after initialization has
\* finished and no train call is between ingestion and release (as claimed;
\* related is synchronous and waits for nothing)
C2_RelatedWaits ==
  last.op = "related" => (~last.early /\ ~last.racy)

\* C3: a train, predict, reduce or save call made after destroy() fails with
\* an error (as claimed; after a completed initialization it returns normally)
C3_FailsAfterDestroy ==
  (last.late /\ last.op \in {"train", "predict", "reduce", "save"}) => last.result = "error"

\* C4: every term id that is a key of a category's term-count table is an id
\* of the global term table, 0 <= id < number of terms
C4_TermIdsExist ==
  \A c \in 1..Len(index.omenFrequencies) :
    \A id \in DOMAIN index.omenFrequencies[c] : 0 <= id /\ id < Len(index.omens)

C4_Witness ==
  /\ lastPurge.acted
  /\ \E c \in 1..Len(index.omenFrequencies) : DOMAIN index.omenFrequencies[c] # {}

\* a train call has returned after checking the budget with a known, positive
\* estimate, and no purge failed in it
TrainCheckedBudget ==
  /\ last.op = "train" /\ last.result = "ok"
  /\ last.checked /\ ~last.pf
  /\ AvgPositive(last.avg)

C6_SecondPurgeIdle ==
  lastPurge.again => lastPurge.same

C6_Witness ==
  lastPurge.again /\ lastPurge.prior /\ lastPurge.same /\ Len(index.omens) > 0

\* the term-occurrence total a category retains
Retained(c) == SumMap(index.omenFrequencies[c])

\* no category retains more than 1.2 x target, except one that was below
\* target before the purge; target = floor(allowed / category count)
WithinTolerance ==
  \A c \in 1..Len(index.divinerGroups) :
    LET target == lastPurge.allowed \div Len(index.divinerGroups)
    IN \/ 10 * Retained(c) <= 12 * target
       \/ lastPurge.before[c] < target

\* C7 as claimed: the bound holds after every purge that has completed
C7_ToleranceAfterAnyPurge ==
  (lastPurge.ran /\ lastPurge.usable) => WithinTolerance

\* C7: the bound holds after every purge that evicted, that is one that found
\* more than allowed_term_count terms in the term table
C7_ToleranceAfterEviction ==
  lastPurge.acted => WithinTolerance

C7_Witness ==
  /\ lastPurge.acted
  /\ \E c \in 1..Len(index.divinerGroups) :
       /\ lastPurge.before[c] >= lastPurge.allowed \div Len(index.divinerGroups)
       /\ Retained(c) < lastPurge.before[c]
       /\ Retained(c) > 0

\* C8: when the purge run at the end of a train call fails, train returns
\* normally, the Index still holds what the batch added, and the write token
\* is released
C8_TrainSurvivesPurgeFailure ==
  (last.op = "train" /\ last.pf) => (last.result = "ok" /\ last.kept /\ last.released)

C8_Witness ==
  last.op = "train" /\ last.pf /\ last.result = "ok" /\ Len(index.omens) > 0

\* C9: a purge failure makes purge() and save() throw, a save or purge that
\* threw has left its guard flag false, and a failed purge has left the Index
\* as it was before the call
C9_FailureReleasesGuards ==
  last.op \in {"purge", "save"} =>
    /\ last.pf => (last.result = "error" /\ last.intact)
    /\ last.result = "error" => (~last.guard /\ ~isPurging /\ ~isSaving)

C9_Witness ==
  last.op = "save" /\ last.pf /\ last.result = "error" /\ Len(index.omens) > 0

\* the members of the Index the round trip is to reproduce
SameModel(a, b) ==
  /\ a.categoryStemToId = b.categoryStemToId
  /\ a.categoryVariations = b.categoryVariations
  /\ a.categoryRelations = b.categoryRelations
  /\ a.divinerGroups = b.divinerGroups
  /\ a.divinerDocCount = b.divinerDocCount
  /\ a.omens = b.omens
  /\ a.omenMapping = b.omenMapping
  /\ a.omenFrequencies = b.omenFrequencies
  /\ a.omenCount = b.omenCount
  /\ a.omenDocFreq = b.omenDocFreq
  /\ a.totalDocuments = b.totalDocuments

Clustered(out, category) == { nm \in DOMAIN out : \E i \in 1..Len(out[nm]) : out[nm][i] = category }

ReduceReturned == last.op = "reduce" /\ last.result = "ok"

\* C11: reduce returns at most min(K, number of distinct input categories)
\* clusters, and every input category is in exactly one returned cluster.
C11_ReducePartitions ==
  ReduceReturned =>
    LET keys == allCategories(last.arg)
    IN /\ Cardinality(DOMAIN last.out) <= numClusters(last.arg)
       /\ \A i \in 1..Len(keys) : Cardinality(Clustered(last.out, keys[i])) = 1

\* C12: given fewer input categories than the requested cluster count, reduce
\* returns each input category as a cluster of its own.
C12_FewInputsSingletons ==
  ReduceReturned =>
    LET keys == allCategories(last.arg)
        K == IF last.arg.amount = 0 THEN 3 ELSE last.arg.amount
    IN Len(keys) < K =>
         /\ Cardinality(DOMAIN last.out) = Len(keys)
         /\ \A i \in 1..Len(keys) : keys[i] \in DOMAIN last.out /\ last.out[keys[i]] = << keys[i] >>

\* C13: reduce called with null, a string or a number fails with an error,
\* returns no clustering and leaves the Index as it was.
C13_InvalidInputFails ==
  last.op = "reduce" /\ last.arg.kind \in {"null", "string", "number"} =>
    last.result = "error" /\ last.out = <<>> /\ index = last.ix

C13_Witness ==
  /\ last.op = "reduce" /\ last.arg.kind = "string" /\ last.result = "error"
  /\ index.totalTransmissions = "NaN"

(***************************************************************************)
(* related                                                                 *)
(***************************************************************************)

RelatedReturned == last.op = "related" /\ last.result = "ok"

\* the categories related returned, in order
returnedNames(rec) ==
  IF rec.arg.options.as = "objects" THEN [i \in 1..Len(rec.out) |-> rec.out[i].category]
  ELSE rec.out

\* the stems of the input categories
inputStems(arg) == { stem(arg.items[i][1]) : i \in 1..Len(arg.items) }

\* C14: no category present in the input of related, under any surface form
\* of its stem, is returned among the co-occurrence candidates.
C14_InputNotReturned ==
  RelatedReturned =>
    \A i \in 1..Len(returnedNames(last)) :
       stem(returnedNames(last)[i]) \notin inputStems(last.arg)

\* number of trained examples labelled with both categories, as the relation
\* graph records it
cooccurrence(ix, x, y) == MapGet(MapGet(ix.categoryRelations, x, EmptyMap), y, 0)

\* the claimed score of category stem y for an input
claimedScore(ix, arg, y) ==
  SumSeq([i \in 1..Len(arg.items) |-> cooccurrence(ix, stem(arg.items[i][1]), y) * arg.items[i][2]])

\* the categories that co-occurred with an input category and are not in the input
cooccurring(ix, arg) ==
  { y \in DOMAIN ix.categoryStemToId \cup DOMAIN ix.categoryRelations :
      y \notin inputStems(arg) /\ \E x \in inputStems(arg) : cooccurrence(ix, x, y) > 0 }

\* C15: related scores a candidate Y as the sum over the input categories X of
\* cooccurrence(X, Y) x weight(X); every category that co-occurred with an
\* input category and is not in the input is returned when the amount allows
\* it, and the results are ordered by that score, descending.
C15_RelatedScores ==
  RelatedReturned /\ last.arg.options.limit = 0 =>
    LET names == returnedNames(last)
        sc(i) == claimedScore(last.ix, last.arg, stem(names[i]))
    IN /\ last.arg.options.as = "objects" =>
            \A i \in 1..Len(names) : last.out[i].score = sc(i)
       /\ \A i \in 1..(Len(names) - 1) : sc(i) >= sc(i + 1)
       /\ Cardinality(cooccurring(last.ix, last.arg)) <= last.arg.options.amount =>
            \A y \in cooccurring(last.ix, last.arg) : \E i \in 1..Len(names) : stem(names[i]) = y

(***************************************************************************)
(* output shaping                                                          *)
(***************************************************************************)

\* the scores of a list of results
scoresOf(results) == [i \in 1..Len(results) |-> results[i].score]

\* position i of a score list (counted from 1) is one where the walk stops:
\* the gap to the next score exceeds 15% of this score, or the next score is
\* below 80% of the top score
StopsAt(sc, i) ==
  \/ 100 * (sc[i] - sc[i + 1]) > 15 * sc[i]
  \/ 100 * sc[i + 1] < 80 * sc[1]

\* C16: with an adaptive cutoff L >= 1 and a non-empty candidate list, output
\* shaping returns a non-empty prefix of the score-descending list, of length
\* at most L, ending at the first position where the gap to the next score
\* exceeds 15% of the score or the next score is below 80% of the top score.
C16_AdaptiveCutoff ==
  last.op = "norm" =>
    LET sorted == sortByScore(last.arg.results)
        sc == scoresOf(sorted)
        L == last.arg.options.limit
        kept == Len(last.out)
    IN /\ 1 <= kept /\ kept <= L /\ kept <= Len(sorted)
       /\ last.out = SubSeq(sorted, 1, kept)
       /\ \A i \in 1..(kept - 1) : sc[i] >= sc[i + 1] /\ ~StopsAt(sc, i)
       /\ kept < L /\ kept < Len(sorted) => StopsAt(sc, kept)

\* a list of three cut after its second item by the drop below 80% of the top
\* score alone, under a limit that would allow all three
C16_Witness ==
  /\ last.op = "norm" /\ last.arg.options.limit = 3
  /\ Len(last.arg.results) = 3 /\ Len(last.out) = 2
  /\ LET sc == scoresOf(sortByScore(last.arg.results))
     IN 100 * (sc[2] - sc[3]) <= 15 * sc[2]

(***************************************************************************)
(* reset                                                                   *)
(***************************************************************************)

\* no categories, no surface variants, no terms, no relation edges, no documents
Cleared(ix) ==
  /\ ix.categoryStemToId = EmptyMap /\ ix.divinerGroups = <<>>
  /\ ix.categoryVariations = EmptyMap
  /\ ix.omenMapping = EmptyMap /\ ix.omens = <<>>
  /\ ix.categoryRelations = EmptyMap
  /\ ix.totalDocuments = 0

\* C17: after reset() the Index holds no categories, no surface variants, no
\* terms, no relation edges and no documents, and predict and related return
\* an empty result as long as nothing has been trained.
C17_ResetClearsAll ==
  /\ last.op = "reset" => Cleared(index)
  /\ RelatedReturned /\ last.ix.divinerGroups = <<>> => last.out = <<>>
  /\ last.op = "predict" /\ last.result = "ok" /\ last.ix.divinerGroups = <<>> => last.out = ""

(***************************************************************************)
(* initialization                                                          *)
(***************************************************************************)

\* the step that settles this.initialized
InitSettles == initialized = "pending" /\ initialized' # "pending"

C19_CacheIsFresh ==
  last.op = "predict" /\ last.result = "ok" /\ last.cache.built =>
    last.cache.of = CacheOf(last.ix)

(***************************************************************************)
(* document frequency                                                      *)
(***************************************************************************)

\* the global document frequency of a term, 0 for a term the Index does not have
DocFreqOf(ix, omen) ==
  IF omen \in DOMAIN ix.omenMapping THEN ix.omenDocFreq[ix.omenMapping[omen] + 1] ELSE 0

\* the distinct terms of the text of an example
TermsOf(item) == { chant(item.input)[i] : i \in 1..Len(chant(item.input)) }

\* the example is ingested: it has a label that is not excluded, and a term
Ingested(item) ==
  /\ chant(item.input) # <<>>
  /\ SelectSeq(item.output, LAMBDA c : stem(c) \notin excludes) # <<>>

\* the step of a train call, given one example, that ingests it
IngestsOne(s) ==
  /\ inflight[s].op = "train" /\ inflight[s].pc = "init" /\ inflight'[s].pc # "init"
  /\ index' # index
  /\ Len(FilterBatch(inflight[s].text)) = 1
  /\ Ingested(FilterBatch(inflight[s].text)[1])

\* C20: ingesting one example adds exactly one to the global document
\* frequency of each distinct term of its text, however often the term occurs
\* in the text and however many labels the example has.
C20_DocFreqOncePerExample ==
  [][\A s \in Slots : IngestsOne(s) =>
        \A omen \in TermsOf(FilterBatch(inflight[s].text)[1]) :
           DocFreqOf(index', omen) = DocFreqOf(index, omen) + 1]_vars

\* "sky" occurs twice in the one text trained, under two labels, and has
\* document frequency 1
C20_Witness ==
  /\ DocFreqOf(index, << "sky" >>) = 1
  /\ Cardinality({ c \in 1..Len(index.omenFrequencies) :
                     MapGet(index.omenFrequencies[c], index.omenMapping[<< "sky" >>], 0) = 2 }) = 2

(***************************************************************************)
(* purge and train: counters and tables                                    *)
(***************************************************************************)

\* C21: for every category the total term-occurrence counter equals the sum
\* of the counts in that category's term table, after any train and purge.
C21_OmenCountIsTableSum ==
  \A c \in 1..Len(index.omenFrequencies) :
     index.omenCount[c] = SumMap(index.omenFrequencies[c])

\* the step of a train call that runs its ingestion on an initialized instance
TrainRuns(s) ==
  /\ inflight[s].op = "train" /\ inflight[s].pc = "init" /\ inflight'[s].pc # "init"
  /\ initialized = "resolved"

\* the example is in the Index: its terms are registered and its surviving
\* labels are categories
InIndex(ix, item) ==
  /\ TermsOf(item) \subseteq DOMAIN ix.omenMapping
  /\ \A i \in 1..Len(item.output) :
        stem(item.output[i]) \notin excludes => stem(item.output[i]) \in DOMAIN ix.categoryStemToId

\* C22: within one train batch skipping is per example: every example that
\* has a label that is not excluded and a text with a term is ingested,
\* whatever the other examples of the batch are.
C22_SkipPerExample ==
  [][\A s \in Slots : TrainRuns(s) =>
        \A i \in 1..Len(inflight[s].text) :
           Ingested(inflight[s].text[i]) => InIndex(index', inflight[s].text[i])]_vars

\* a step in which purge() ran to the end of its try block and evicted
Evicts == lastPurge' # lastPurge /\ lastPurge'.acted

\* the table of category c as the keep-top phase left it, before the fairness phase
KeepTop(c) == RebuiltFrequencies(index, keptIndices(index, lastPurge'.allowed), c)

\* the terms the fairness phase took out of the table of category c
Trimmed(c) == DOMAIN KeepTop(c) \ DOMAIN index'.omenFrequencies[c]

\* C23: in the fairness phase, a category over 1.2 x target loses its
\* lowest-count terms first (no removed term has a higher count than a term
\* left in the table), the global term table is not touched, and removal
\* stops once the total is within tolerance (the last removal was needed).
C23_TrimLowestFirst ==
  [][Evicts =>
       /\ Len(index'.omens) = lastPurge'.allowed
       /\ \A c \in 1..Len(index.omenFrequencies) :
            LET left == index'.omenFrequencies[c]
                target == targetCount(index, lastPurge'.allowed)
            IN /\ \A r \in Trimmed(c) : \A k \in DOMAIN left : KeepTop(c)[r] <= left[k]
               /\ \A k \in DOMAIN left : left[k] = KeepTop(c)[k]
               /\ Trimmed(c) # {} =>
                    \E r \in Trimmed(c) : 10 * (SumMap(left) + KeepTop(c)[r]) > 12 * target]_vars

\* the position (old id) of a term in the term list before the step
OldId(o) == index.omenMapping[o]

\* score(a) >= score(b), scores being fractions <<numerator, denominator>>
ScoreAtLeast(a, b) == a[1] * b[2] >= b[1] * a[2]

\* C24: a purge that finds more than allowed_term_count terms leaves exactly
\* that many; every retained term scores at least as high as every discarded
\* one; no category table mentions a discarded term; the retained terms have
\* the ids 0..allowed-1 and the term-to-id map matches the term list.
C24_KeepTop ==
  [][Evicts =>
       LET allowed == lastPurge'.allowed
           kept == {index'.omens[k] : k \in 1..Len(index'.omens)}
           all == {index.omens[k] : k \in 1..Len(index.omens)}
       IN /\ Len(index'.omens) = allowed
          /\ Cardinality(kept) = allowed
          /\ kept \subseteq all
          /\ \A r \in kept : \A d \in all \ kept :
                ScoreAtLeast(Score(index, allowed, OldId(r)), Score(index, allowed, OldId(d)))
          /\ \A c \in 1..Len(index'.omenFrequencies) :
                \A id \in DOMAIN index'.omenFrequencies[c] :
                   /\ id \in 0..(allowed - 1)
                   /\ index'.omenFrequencies[c][id] =
                        MapGet(index.omenFrequencies[c], OldId(index'.omens[id + 1]), 0)
          /\ DOMAIN index'.omenMapping = kept
          /\ \A k \in 1..allowed : index'.omenMapping[index'.omens[k]] = k - 1
          /\ Len(index'.omenDocFreq) = allowed]_vars

\* a purge has evicted: it found more terms than allowed and left several
C24_Witness ==
  /\ lastPurge.acted /\ ~lastPurge.same
  /\ lastPurge.allowed >= 2
  /\ Len(index.omens) = lastPurge.allowed
  /\ \E c \in 1..Len(index.omenFrequencies) : index.omenFrequencies[c] # EmptyMap

(***************************************************************************)
(* reduce: termination of the clustering loops                             *)
(***************************************************************************)

\* the clustering of the call in slot s is under way
Clustering(s) == inflight[s].run.phase # "none"

\* the step ends kmeans's reassignment loop of slot s
LloydStops(s) == inflight[s].run.phase = "lloyd" /\ inflight'[s].run.phase = "collect"

\* the step is a pass of the re-split loop of slot s: kmeans on a sub-cluster
\* has returned
SplitPass(s) == inflight[s].run.phase = "returned" /\ inflight[s].run.sub

\* C25: reduce terminates: once the clustering has begun the call ends; the
\* reassignment loop ends on an iteration without reassignment or at the
\* iteration cap and never runs past the cap; a pass of the re-split loop
\* either adds one cluster and goes on only while fewer than K clusters exist,
\* or ends the loop.
C25_ReduceTerminates ==
  /\ \A s \in Slots : Clustering(s) ~> ~Clustering(s)
  /\ [][\A s \in Slots :
         /\ Clustering(s) => inflight[s].run.iter <= maxIter
         /\ LloydStops(s) =>
               \/ inflight[s].run.iter = maxIter
               \/ inflight'[s].run.assignments = inflight[s].run.assignments
         /\ SplitPass(s) =>
               \/ /\ Clustering(s)'
                  /\ Len(inflight'[s].run.clusters) = Len(inflight[s].run.clusters) + 1
                  /\ Len(inflight'[s].run.clusters) < inflight[s].run.target
               \/ /\ ~Clustering(s)'
                  /\ last'.op = "reduce" /\ last'.result = "ok"
                  /\ \/ last'.out.failed
                     \/ Len(last'.out.clusters) = Len(inflight[s].run.clusters) + 1]_vars

\* a reduce call has returned after a reassignment loop that ran to the cap and
\* a re-split that added a cluster
C25_Witness ==
  /\ last.op = "reduce" /\ last.result = "ok"
  /\ last.out.phase = "done" /\ last.out.capped /\ last.out.splits >= 1
  /\ Len(last.out.clusters) = last.out.target

(***************************************************************************)
(* train: the write-in-progress token                                      *)
(***************************************************************************)

\* a predict, reduce or save call is in flight: it waits, or will wait, for
\* the token
Waiting == \E s \in Slots : inflight[s].op \in {"predict", "reduce", "save"}

\* C26: every token a train call takes is released in the end, on every path
\* of train, so that no predict, reduce or save is blocked forever (the calls
\* are made one after the other: one token is held and one call waits at a time).
C26_TokenReleased ==
  /\ (pending # {}) ~> (pending = {})
  /\ Waiting ~> ~Waiting

(***************************************************************************)
(* save: the guard with overlapping calls                                  *)
(***************************************************************************)

\* a save call is in progress
Saving == \E s \in Slots : inflight[s].op = "save"

\* the step is the guard check of a train call that goes on to overloaded()
\* and purge()
TrainPassesGuard(s) ==
  /\ inflight[s].op = "train" /\ inflight[s].pc = "init"
  /\ inflight'[s].pc \in {"ovStat", "ovRet"}

\* C27: the save guard is true for as long as any save call is in progress,
\* also when save calls overlap, so a train call that checks the guard during
\* a save does not go on to purge.
C27_SaveGuardHeld ==
  /\ [](Saving => isSaving)
  /\ [][\A s \in Slots : TrainPassesGuard(s) => ~Saving]_vars

(***************************************************************************)
(* train: the document counters                                            *)
(***************************************************************************)

\* C28: the total document count equals the sum of the per-category
\* document counts in every state train, purge and reset reach (it is
\* incremented once per surviving label of each ingested example).
C28_TotalIsSumOfCategories ==
  index.totalDocuments = SumSeq(index.divinerDocCount)

(***************************************************************************)
(* train: the co-occurrence graph                                          *)
(***************************************************************************)

\* the weight of the edge a -> b, 0 when there is none
EdgeWeight(a, b) == MapGet(MapGet(index.categoryRelations, a, EmptyMap), b, 0)

\* C29: the co-occurrence graph has no edge from a stem to itself, every
\* stem at either end of an edge is a category of the Index, and the edges
\* a -> b and b -> a have the same weight.
C29_RelationGraph ==
  \A a \in DOMAIN index.categoryRelations :
     /\ a \in DOMAIN index.categoryStemToId
     /\ \A b \in DOMAIN index.categoryRelations[a] :
          /\ b # a
          /\ b \in DOMAIN index.categoryStemToId
          /\ EdgeWeight(b, a) = EdgeWeight(a, b)

(***************************************************************************)
(* destroy during initialization                                           *)
(***************************************************************************)

\* the step is a destroy() made while this.initialized is pending
DestroyedEarly == ~destroyed /\ destroyed' /\ initialized = "pending"

\* the Index holds no term, no category and no document
IndexEmpty ==
  /\ index.omens = <<>> /\ index.omenMapping = EmptyMap
  /\ index.divinerGroups = <<>> /\ index.categoryStemToId = EmptyMap
  /\ index.omenFrequencies = <<>> /\ index.totalDocuments = 0

\* C30: destroy() called while initialization is pending rejects the
\* initialization promise, and once init() has ended the Index is empty and
\* stays empty: the load in flight does not repopulate it.
C30_DestroyDuringInit ==
  /\ [][DestroyedEarly => initialized' = "rejected"]_vars
  /\ []((destroyed /\ initialized = "rejected" /\ initPc = "done") => IndexEmpty)

====
